---------------------------- MODULE Spec2Model ----------------------------
(***************************************************************************)
(* Wardrobe Manager: the garment state machine (state_machine.py) and the  *)
(* coordinator that drives it from NFC scan events, services and the       *)
(* options flow (coordinator.py, __init__.py, config_flow.py).             *)
(*                                                                         *)
(* Python's None is the empty sequence and a present value v is <<v>>, so  *)
(* that a nullable field and an optional result compare without mixing     *)
(* types.  A dict is a function whose DOMAIN is its key set.               *)
(***************************************************************************)
EXTENDS Integers, Sequences, FiniteSets, TLC

VARIABLES
    garments,   \* coordinator.garments: tag_id -> GarmentData
    scanners,   \* coordinator.scanners: scanner_id -> {role, name}
    store,      \* the document held by the Store (None when there is none)
    last,       \* the call that made the last step and what it did
    scans,      \* the scans recorded of the run (SpecLifecycle, SpecHistory)
    failed,     \* the number of saves the Store has failed so far
    tasks,      \* the handlers suspended at their await, oldest first
    entries,    \* the titles of the domain's config entries
    flows,      \* the number of user config flows showing their form
    event_entities  \* the state-change event entities, by tag_id (SpecEntities)

vars == <<garments, scanners, store, last, scans, failed, tasks,
          entries, flows, event_entities>>

None == <<>>
Some(v) == <<v>>

\* no entity platform is set up
NoEntities == [x \in {} |-> None]

---------------------------------------------------------------------------
(* const.py *)

ScannerRole == {"closet", "laundry_bin", "washer", "dryer", "ironing"}

GarmentState ==
    {"clean", "worn", "in_laundry_bin", "washing", "drying", "needs_ironing"}

DEFAULT_NEEDS_WASHING_THRESHOLD == 3

---------------------------------------------------------------------------
(* Bounds of the model and the input sets the specifications draw from. *)

MaxWear == 2      \* total_wear_count is explored up to this value
MaxWashes == 2    \* wash_cycles is explored up to this length
MaxScans == 6     \* the lifecycle runs are explored up to this many scans
MaxSaveFailures == 1  \* the Store is explored failing up to this many saves
MaxTasks == 2     \* at most this many handlers are suspended at a time
MaxFlows == 2     \* at most this many user flows show their form at a time

\* datetime.now(timezone.utc).isoformat(): opaque strings, never ordered
Time1 == "2026-01-01T08:00:00+00:00"
Time2 == "2026-01-02T08:00:00+00:00"
Times == {Time1, Time2}
TagIds == {"t1"}
Methods == {"hand"}
SaveOutcomes == {TRUE}
Missing == ""     \* event.data.get(...) of an absent or empty field: falsy

\* (name, category, color, needs_washing_threshold) as a registration gives them
GarmentInputs ==
    { [name |-> "Shirt", category |-> "shirt", color |-> "white",
       needs_washing_threshold |-> DEFAULT_NEEDS_WASHING_THRESHOLD],
      [name |-> "Jeans", category |-> "jeans", color |-> "",
       needs_washing_threshold |-> 1] }

\* The scanner directory found in storage at setup: one reader per role.
LoadedScanners ==
    [s \in {"nfc_closet", "nfc_laundry_bin", "nfc_washer", "nfc_dryer",
            "nfc_ironing"} |->
        [role |-> CASE s = "nfc_closet" -> "closet"
                    [] s = "nfc_laundry_bin" -> "laundry_bin"
                    [] s = "nfc_washer" -> "washer"
                    [] s = "nfc_dryer" -> "dryer"
                    [] s = "nfc_ironing" -> "ironing",
         name |-> "reader"]]

\* esphome.nfc_tag_scanned events: from the loaded readers and from one that
\* is not registered, and events that miss a field
ScanEvents ==
    { [tag_id |-> t, scanner_id |-> s] :
        t \in TagIds, s \in DOMAIN LoadedScanners \cup {"nfc_guest"} }
    \cup { [tag_id |-> Missing, scanner_id |-> "nfc_closet"],
           [tag_id |-> "t1", scanner_id |-> Missing] }

---------------------------------------------------------------------------
(* state_machine.py *)

\* Faulty variants of the table, against which the properties are tried:
\* one without the (ironing, washing) entry, one where the dryer takes
\* garments from the laundry bin instead of from the washer.
TRANSITIONS_no_ironing_from_washing ==
    (<<"closet", "clean">> :> "worn")
    @@ (<<"closet", "worn">> :> "clean")
    @@ (<<"closet", "in_laundry_bin">> :> "clean")
    @@ (<<"closet", "drying">> :> "clean")
    @@ (<<"closet", "needs_ironing">> :> "clean")
    @@ (<<"laundry_bin", "worn">> :> "in_laundry_bin")
    @@ (<<"washer", "in_laundry_bin">> :> "washing")
    @@ (<<"dryer", "washing">> :> "drying")
    @@ (<<"ironing", "drying">> :> "needs_ironing")

TRANSITIONS_dryer_from_bin ==
    (<<"closet", "clean">> :> "worn")
    @@ (<<"closet", "worn">> :> "clean")
    @@ (<<"closet", "in_laundry_bin">> :> "clean")
    @@ (<<"closet", "drying">> :> "clean")
    @@ (<<"closet", "needs_ironing">> :> "clean")
    @@ (<<"laundry_bin", "worn">> :> "in_laundry_bin")
    @@ (<<"washer", "in_laundry_bin">> :> "washing")
    @@ (<<"dryer", "in_laundry_bin">> :> "drying")
    @@ (<<"ironing", "drying">> :> "needs_ironing")
    @@ (<<"ironing", "washing">> :> "needs_ironing")

\* Faulty variants of the table: one where the washer also takes a clean
\* garment, one where the closet does not take a garment back from drying.
TRANSITIONS_washer_takes_clean ==
    (<<"closet", "clean">> :> "worn")
    @@ (<<"closet", "worn">> :> "clean")
    @@ (<<"closet", "in_laundry_bin">> :> "clean")
    @@ (<<"closet", "drying">> :> "clean")
    @@ (<<"closet", "needs_ironing">> :> "clean")
    @@ (<<"laundry_bin", "worn">> :> "in_laundry_bin")
    @@ (<<"washer", "in_laundry_bin">> :> "washing")
    @@ (<<"washer", "clean">> :> "washing")
    @@ (<<"dryer", "washing">> :> "drying")
    @@ (<<"ironing", "drying">> :> "needs_ironing")
    @@ (<<"ironing", "washing">> :> "needs_ironing")

TRANSITIONS_closet_refuses_drying ==
    (<<"closet", "clean">> :> "worn")
    @@ (<<"closet", "worn">> :> "clean")
    @@ (<<"closet", "in_laundry_bin">> :> "clean")
    @@ (<<"closet", "needs_ironing">> :> "clean")
    @@ (<<"laundry_bin", "worn">> :> "in_laundry_bin")
    @@ (<<"washer", "in_laundry_bin">> :> "washing")
    @@ (<<"dryer", "washing">> :> "drying")
    @@ (<<"ironing", "drying">> :> "needs_ironing")
    @@ (<<"ironing", "washing">> :> "needs_ironing")

TRANSITIONS ==
    (<<"closet", "clean">> :> "worn")
    @@ (<<"closet", "worn">> :> "clean")
    @@ (<<"closet", "in_laundry_bin">> :> "clean")
    @@ (<<"closet", "drying">> :> "clean")
    @@ (<<"closet", "needs_ironing">> :> "clean")
    @@ (<<"laundry_bin", "worn">> :> "in_laundry_bin")
    @@ (<<"washer", "in_laundry_bin">> :> "washing")
    @@ (<<"dryer", "washing">> :> "drying")
    @@ (<<"ironing", "drying">> :> "needs_ironing")
    @@ (<<"ironing", "washing">> :> "needs_ironing")

\* TRANSITIONS.get(key)
TRANSITIONS_get(key) ==
    IF key \in DOMAIN TRANSITIONS THEN Some(TRANSITIONS[key]) ELSE None

WashCycle(timestamp, method) == [timestamp |-> timestamp, method |-> method]

\* The dataclass constructor with its defaults.
GarmentData(tag_id, name, category, color, needs_washing_threshold) ==
    [tag_id |-> tag_id,
     name |-> name,
     category |-> category,
     color |-> color,
     garment_state |-> "clean",
     wear_count_since_wash |-> 0,
     total_wear_count |-> 0,
     needs_washing_threshold |-> needs_washing_threshold,
     last_worn |-> None,
     last_washed |-> None,
     last_scanned_at |-> None,
     wash_cycles |-> <<>>]

to_dict(g) ==
    [name |-> g.name,
     category |-> g.category,
     color |-> g.color,
     garment_state |-> g.garment_state,
     wear_count_since_wash |-> g.wear_count_since_wash,
     total_wear_count |-> g.total_wear_count,
     needs_washing_threshold |-> g.needs_washing_threshold,
     last_worn |-> g.last_worn,
     last_washed |-> g.last_washed,
     last_scanned_at |-> g.last_scanned_at,
     wash_cycles |->
        [i \in DOMAIN g.wash_cycles |->
            [timestamp |-> g.wash_cycles[i].timestamp,
             method |-> g.wash_cycles[i].method]]]

\* data.get(key, default)
DictGet(data, key, default) == IF key \in DOMAIN data THEN data[key] ELSE default

\* Faulty variant: a record stored without a state is read as worn.
from_dict_defaults_to_worn(tag_id, data) ==
    [tag_id |-> tag_id,
     name |-> data["name"],
     category |-> data["category"],
     color |-> DictGet(data, "color", ""),
     garment_state |-> DictGet(data, "garment_state", "worn"),
     wear_count_since_wash |-> DictGet(data, "wear_count_since_wash", 0),
     total_wear_count |-> DictGet(data, "total_wear_count", 0),
     needs_washing_threshold |-> DictGet(data, "needs_washing_threshold", 3),
     last_worn |-> DictGet(data, "last_worn", None),
     last_washed |-> DictGet(data, "last_washed", None),
     last_scanned_at |-> DictGet(data, "last_scanned_at", None),
     wash_cycles |->
        LET wcs == DictGet(data, "wash_cycles", <<>>)
        IN  [i \in DOMAIN wcs |-> WashCycle(wcs[i]["timestamp"], wcs[i]["method"])]]

\* Faulty variant: the wear counter since the last wash is not read back.
from_dict_resets_wear(tag_id, data) ==
    [tag_id |-> tag_id,
     name |-> data["name"],
     category |-> data["category"],
     color |-> DictGet(data, "color", ""),
     garment_state |-> DictGet(data, "garment_state", "clean"),
     wear_count_since_wash |-> 0,
     total_wear_count |-> DictGet(data, "total_wear_count", 0),
     needs_washing_threshold |-> DictGet(data, "needs_washing_threshold", 3),
     last_worn |-> DictGet(data, "last_worn", None),
     last_washed |-> DictGet(data, "last_washed", None),
     last_scanned_at |-> DictGet(data, "last_scanned_at", None),
     wash_cycles |->
        LET wcs == DictGet(data, "wash_cycles", <<>>)
        IN  [i \in DOMAIN wcs |-> WashCycle(wcs[i]["timestamp"], wcs[i]["method"])]]

\* GarmentData.from_dict; a stored record always holds name and category.
from_dict(tag_id, data) ==
    [tag_id |-> tag_id,
     name |-> data["name"],
     category |-> data["category"],
     color |-> DictGet(data, "color", ""),
     garment_state |-> DictGet(data, "garment_state", "clean"),
     wear_count_since_wash |-> DictGet(data, "wear_count_since_wash", 0),
     total_wear_count |-> DictGet(data, "total_wear_count", 0),
     needs_washing_threshold |-> DictGet(data, "needs_washing_threshold", 3),
     last_worn |-> DictGet(data, "last_worn", None),
     last_washed |-> DictGet(data, "last_washed", None),
     last_scanned_at |-> DictGet(data, "last_scanned_at", None),
     wash_cycles |->
        LET wcs == DictGet(data, "wash_cycles", <<>>)
        IN  [i \in DOMAIN wcs |-> WashCycle(wcs[i]["timestamp"], wcs[i]["method"])]]

\* Faulty variants of transition, against which the properties are tried.
\* The scanner id is stamped before the table is consulted.
transition_stamps_before_lookup(garment, scanner_role, scanner_id, now) ==
    LET stamped == [garment EXCEPT !.last_scanned_at = Some(scanner_id)]
        new_state == TRANSITIONS_get(<<scanner_role, garment.garment_state>>)
    IN  IF new_state = None
        THEN [garment |-> stamped, returned |-> None]
        ELSE
            LET g1 == [stamped EXCEPT !.garment_state = new_state[1]]
                g2 == IF new_state[1] = "worn"
                      THEN [g1 EXCEPT !.wear_count_since_wash = @ + 1,
                                      !.total_wear_count = @ + 1,
                                      !.last_worn = Some(now)]
                      ELSE g1
                g3 == IF new_state[1] = "washing"
                      THEN [g2 EXCEPT !.wear_count_since_wash = 0,
                                      !.last_washed = Some(now),
                                      !.wash_cycles =
                                          Append(@, WashCycle(now, "machine"))]
                      ELSE g2
            IN  [garment |-> g3, returned |-> Some(g3)]

\* A wear is counted since the last wash but not in the total.
transition_wear_not_in_total(garment, scanner_role, scanner_id, now) ==
    LET new_state == TRANSITIONS_get(<<scanner_role, garment.garment_state>>)
    IN  IF new_state = None
        THEN [garment |-> garment, returned |-> None]
        ELSE
            LET g1 == [garment EXCEPT !.garment_state = new_state[1],
                                      !.last_scanned_at = Some(scanner_id)]
                g2 == IF new_state[1] = "worn"
                      THEN [g1 EXCEPT !.wear_count_since_wash = @ + 1,
                                      !.last_worn = Some(now)]
                      ELSE g1
                g3 == IF new_state[1] = "washing"
                      THEN [g2 EXCEPT !.wear_count_since_wash = 0,
                                      !.last_washed = Some(now),
                                      !.wash_cycles =
                                          Append(@, WashCycle(now, "machine"))]
                      ELSE g2
            IN  [garment |-> g3, returned |-> Some(g3)]

\* A wash replaces the wash history instead of extending it.
transition_wash_overwrites_history(garment, scanner_role, scanner_id, now) ==
    LET new_state == TRANSITIONS_get(<<scanner_role, garment.garment_state>>)
    IN  IF new_state = None
        THEN [garment |-> garment, returned |-> None]
        ELSE
            LET g1 == [garment EXCEPT !.garment_state = new_state[1],
                                      !.last_scanned_at = Some(scanner_id)]
                g2 == IF new_state[1] = "worn"
                      THEN [g1 EXCEPT !.wear_count_since_wash = @ + 1,
                                      !.total_wear_count = @ + 1,
                                      !.last_worn = Some(now)]
                      ELSE g1
                g3 == IF new_state[1] = "washing"
                      THEN [g2 EXCEPT !.wear_count_since_wash = 0,
                                      !.last_washed = Some(now),
                                      !.wash_cycles =
                                          <<WashCycle(now, "machine")>>]
                      ELSE g2
            IN  [garment |-> g3, returned |-> Some(g3)]

\* A return to the closet is taken for a wash: the wear count is reset.
transition_return_resets_count(garment, scanner_role, scanner_id, now) ==
    LET new_state == TRANSITIONS_get(<<scanner_role, garment.garment_state>>)
    IN  IF new_state = None
        THEN [garment |-> garment, returned |-> None]
        ELSE
            LET g1 == [garment EXCEPT !.garment_state = new_state[1],
                                      !.last_scanned_at = Some(scanner_id)]
                g2 == IF new_state[1] = "worn"
                      THEN [g1 EXCEPT !.wear_count_since_wash = @ + 1,
                                      !.total_wear_count = @ + 1,
                                      !.last_worn = Some(now)]
                      ELSE g1
                g3 == IF new_state[1] \in {"washing", "clean"}
                      THEN [g2 EXCEPT !.wear_count_since_wash = 0,
                                      !.last_washed = Some(now),
                                      !.wash_cycles =
                                          Append(@, WashCycle(now, "machine"))]
                      ELSE g2
            IN  [garment |-> g3, returned |-> Some(g3)]

\* Faulty variant: a garment worn twice since its wash is refused at the
\* closet until it has been washed.
transition_refuses_unwashed(garment, scanner_role, scanner_id, now) ==
    LET key == <<scanner_role, garment.garment_state>>
        new_state == IF scanner_role = "closet"
                        /\ garment.wear_count_since_wash >= 2
                     THEN None
                     ELSE TRANSITIONS_get(key)
    IN  IF new_state = None
        THEN [garment |-> garment, returned |-> None]
        ELSE
            LET g1 == [garment EXCEPT !.garment_state = new_state[1],
                                      !.last_scanned_at = Some(scanner_id)]
                g2 == IF new_state[1] = "worn"
                      THEN [g1 EXCEPT !.wear_count_since_wash = @ + 1,
                                      !.total_wear_count = @ + 1,
                                      !.last_worn = Some(now)]
                      ELSE g1
                g3 == IF new_state[1] = "washing"
                      THEN [g2 EXCEPT !.wear_count_since_wash = 0,
                                      !.last_washed = Some(now),
                                      !.wash_cycles =
                                          Append(@, WashCycle(now, "machine"))]
                      ELSE g2
            IN  [garment |-> g3, returned |-> Some(g3)]

\* Faulty variant: returning a garment to the closet clears its wear counter.
transition_return_resets_wear(garment, scanner_role, scanner_id, now) ==
    LET key == <<scanner_role, garment.garment_state>>
        new_state == TRANSITIONS_get(key)
    IN  IF new_state = None
        THEN [garment |-> garment, returned |-> None]
        ELSE
            LET g1 == [garment EXCEPT !.garment_state = new_state[1],
                                      !.last_scanned_at = Some(scanner_id)]
                g2 == IF new_state[1] = "worn"
                      THEN [g1 EXCEPT !.wear_count_since_wash = @ + 1,
                                      !.total_wear_count = @ + 1,
                                      !.last_worn = Some(now)]
                      ELSE g1
                g3 == IF new_state[1] \in {"washing", "clean"}
                      THEN [g2 EXCEPT !.wear_count_since_wash = 0,
                                      !.last_washed =
                                          IF new_state[1] = "washing"
                                          THEN Some(now) ELSE @,
                                      !.wash_cycles =
                                          IF new_state[1] = "washing"
                                          THEN Append(@, WashCycle(now, "machine"))
                                          ELSE @]
                      ELSE g2
            IN  [garment |-> g3, returned |-> Some(g3)]

\* transition(garment, scanner_role, scanner_id); now is the clock it reads.
\* The function works on the caller's object: garment is that object after
\* the call, returned is None or the same object.
transition(garment, scanner_role, scanner_id, now) ==
    LET key == <<scanner_role, garment.garment_state>>
        new_state == TRANSITIONS_get(key)
    IN  IF new_state = None
        THEN [garment |-> garment, returned |-> None]
        ELSE
            LET g1 == [garment EXCEPT !.garment_state = new_state[1],
                                      !.last_scanned_at = Some(scanner_id)]
                g2 == IF new_state[1] = "worn"
                      THEN [g1 EXCEPT !.wear_count_since_wash = @ + 1,
                                      !.total_wear_count = @ + 1,
                                      !.last_worn = Some(now)]
                      ELSE g1
                g3 == IF new_state[1] = "washing"
                      THEN [g2 EXCEPT !.wear_count_since_wash = 0,
                                      !.last_washed = Some(now),
                                      !.wash_cycles =
                                          Append(@, WashCycle(now, "machine"))]
                      ELSE g2
            IN  [garment |-> g3, returned |-> Some(g3)]

---------------------------------------------------------------------------
(* coordinator.py *)

\* What the last call was and what it did besides changing memory: the
\* value it returned, the persistence attempts it made, the change
\* notifications it sent (async_set_updated_data) and the unknown-tag event
\* it fired on the bus.
Call(op, tag, result, saves, notified, signal) ==
    [op |-> op, tag |-> tag, result |-> result, saves |-> saves,
     notified |-> notified, signal |-> signal]

\* The data dict _async_save builds from the current directories.
SaveData(sc, gs) ==
    [scanners |-> sc,
     garments |-> [t \in DOMAIN gs |-> to_dict(gs[t])]]

\* _async_save: the Store takes the document, or raises and keeps the old one;
\* the exception is logged and swallowed.
async_save(sc, gs, save_ok) ==
    IF save_ok THEN Some(SaveData(sc, gs)) ELSE store

\* Faulty variant: the stored role is returned as it is, whatever it says.
get_scanner_role_unvalidated(scanner_id) ==
    IF scanner_id \notin DOMAIN scanners
    THEN None
    ELSE Some(scanners[scanner_id].role)

get_scanner_role(scanner_id) ==
    IF scanner_id \notin DOMAIN scanners
    THEN None
    ELSE IF scanners[scanner_id].role \in ScannerRole
         THEN Some(scanners[scanner_id].role)
         ELSE None

\* dict assignment d[k] = v and del d[k]
DictSet(d, k, v) == [x \in DOMAIN d \cup {k} |-> IF x = k THEN v ELSE d[x]]
DictDel(d, k) == [x \in DOMAIN d \ {k} |-> d[x]]

\* Faulty variant: the Store's exception is not caught around the save, so
\* the handler ends there, before the change notification.
handle_tag_scanned_save_raises(tag_id, scanner_id, now, save_ok) ==
    IF tag_id = Missing \/ scanner_id = Missing
    THEN /\ UNCHANGED <<garments, scanners, store>>
         /\ last' = Call("scan", Missing, "None", 0, 0, None)
    ELSE LET scanner_role == get_scanner_role(scanner_id) IN
         IF scanner_role = None
         THEN /\ UNCHANGED <<garments, scanners, store>>
              /\ last' = Call("scan", Missing, "None", 0, 0, None)
         ELSE IF tag_id \notin DOMAIN garments
         THEN /\ UNCHANGED <<garments, scanners, store>>
              /\ last' = Call("scan", Missing, "None", 0, 0,
                              Some([tag_id |-> tag_id,
                                    scanner_role |-> scanner_role[1]]))
         ELSE LET result == transition(garments[tag_id], scanner_role[1],
                                       scanner_id, now)
              IN  IF result.returned = None
                  THEN /\ garments' = [garments EXCEPT ![tag_id] = result.garment]
                       /\ UNCHANGED <<scanners, store>>
                       /\ last' = Call("scan", Missing, "None", 0, 0, None)
                  ELSE /\ garments' = [garments EXCEPT ![tag_id] = result.garment]
                       /\ store' = async_save(scanners, garments', save_ok)
                       /\ UNCHANGED scanners
                       /\ last' = IF save_ok
                                  THEN Call("scan", tag_id, "None", 1, 1, None)
                                  ELSE Call("scan", tag_id, "raise", 1, 0, None)

\* Faulty variant: an unknown tag gets a garment record made for it.
handle_tag_scanned_creates_record(tag_id, scanner_id, now, save_ok) ==
    IF tag_id = Missing \/ scanner_id = Missing
    THEN /\ UNCHANGED <<garments, scanners, store>>
         /\ last' = Call("scan", Missing, "None", 0, 0, None)
    ELSE LET scanner_role == get_scanner_role(scanner_id) IN
         IF scanner_role = None
         THEN /\ UNCHANGED <<garments, scanners, store>>
              /\ last' = Call("scan", Missing, "None", 0, 0, None)
         ELSE IF tag_id \notin DOMAIN garments
         THEN /\ garments' = DictSet(garments, tag_id,
                                     GarmentData(tag_id, tag_id, "", "", 3))
              /\ UNCHANGED <<scanners, store>>
              /\ last' = Call("scan", Missing, "None", 0, 0,
                              Some([tag_id |-> tag_id,
                                    scanner_role |-> scanner_role[1]]))
         ELSE LET result == transition(garments[tag_id], scanner_role[1],
                                       scanner_id, now)
              IN  IF result.returned = None
                  THEN /\ garments' = [garments EXCEPT ![tag_id] = result.garment]
                       /\ UNCHANGED <<scanners, store>>
                       /\ last' = Call("scan", Missing, "None", 0, 0, None)
                  ELSE /\ garments' = [garments EXCEPT ![tag_id] = result.garment]
                       /\ store' = async_save(scanners, garments', save_ok)
                       /\ UNCHANGED scanners
                       /\ last' = Call("scan", tag_id, "None", 1, 1, None)

\* Faulty variant: the event's fields are not checked before the lookups.
handle_tag_scanned_unchecked_fields(tag_id, scanner_id, now, save_ok) ==
    LET scanner_role == get_scanner_role(scanner_id) IN
    IF scanner_role = None
    THEN /\ UNCHANGED <<garments, scanners, store>>
         /\ last' = Call("scan", Missing, "None", 0, 0, None)
    ELSE IF tag_id \notin DOMAIN garments
    THEN /\ UNCHANGED <<garments, scanners, store>>
         /\ last' = Call("scan", Missing, "None", 0, 0,
                         Some([tag_id |-> tag_id,
                               scanner_role |-> scanner_role[1]]))
    ELSE LET result == transition(garments[tag_id], scanner_role[1],
                                  scanner_id, now)
         IN  IF result.returned = None
             THEN /\ garments' = [garments EXCEPT ![tag_id] = result.garment]
                  /\ UNCHANGED <<scanners, store>>
                  /\ last' = Call("scan", Missing, "None", 0, 0, None)
             ELSE /\ garments' = [garments EXCEPT ![tag_id] = result.garment]
                  /\ store' = async_save(scanners, garments', save_ok)
                  /\ UNCHANGED scanners
                  /\ last' = Call("scan", tag_id, "None", 1, 1, None)

handle_tag_scanned(tag_id, scanner_id, now, save_ok) ==
    IF tag_id = Missing \/ scanner_id = Missing
    THEN /\ UNCHANGED <<garments, scanners, store>>
         /\ last' = Call("scan", Missing, "None", 0, 0, None)
    ELSE LET scanner_role == get_scanner_role(scanner_id) IN
         IF scanner_role = None
         THEN /\ UNCHANGED <<garments, scanners, store>>
              /\ last' = Call("scan", Missing, "None", 0, 0, None)
         ELSE IF tag_id \notin DOMAIN garments
         THEN /\ UNCHANGED <<garments, scanners, store>>
              /\ last' = Call("scan", Missing, "None", 0, 0,
                              Some([tag_id |-> tag_id,
                                    scanner_role |-> scanner_role[1]]))
         ELSE LET result == transition(garments[tag_id], scanner_role[1],
                                       scanner_id, now)
              IN  IF result.returned = None
                  THEN /\ garments' = [garments EXCEPT ![tag_id] = result.garment]
                       /\ UNCHANGED <<scanners, store>>
                       /\ last' = Call("scan", Missing, "None", 0, 0, None)
                  ELSE /\ garments' = [garments EXCEPT ![tag_id] = result.garment]
                       /\ store' = async_save(scanners, garments', save_ok)
                       /\ UNCHANGED scanners
                       /\ last' = Call("scan", tag_id, "None", 1, 1, None)

async_register_garment(tag_id, name, category, color, needs_washing_threshold, save_ok) ==
    LET garment == GarmentData(tag_id, name, category, color,
                               needs_washing_threshold)
    IN  /\ garments' = DictSet(garments, tag_id, garment)
        /\ store' = async_save(scanners, garments', save_ok)
        /\ UNCHANGED scanners
        /\ last' = Call("register_garment", tag_id, "garment", 1, 1, None)

\* Faulty variant: the record is taken out of the stored document only and
\* stays in memory.
async_remove_garment_keeps_memory(tag_id, save_ok) ==
    IF tag_id \notin DOMAIN garments
    THEN /\ UNCHANGED <<garments, scanners, store>>
         /\ last' = Call("remove_garment", Missing, "False", 0, 0, None)
    ELSE /\ UNCHANGED garments
         /\ store' = async_save(scanners, DictDel(garments, tag_id), save_ok)
         /\ UNCHANGED scanners
         /\ last' = Call("remove_garment", tag_id, "True", 1, 1, None)

\* Faulty variant: a removal is persisted but not announced.
async_remove_garment_unnotified(tag_id, save_ok) ==
    IF tag_id \notin DOMAIN garments
    THEN /\ UNCHANGED <<garments, scanners, store>>
         /\ last' = Call("remove_garment", Missing, "False", 0, 0, None)
    ELSE /\ garments' = DictDel(garments, tag_id)
         /\ store' = async_save(scanners, garments', save_ok)
         /\ UNCHANGED scanners
         /\ last' = Call("remove_garment", tag_id, "True", 1, 0, None)

async_remove_garment(tag_id, save_ok) ==
    IF tag_id \notin DOMAIN garments
    THEN /\ UNCHANGED <<garments, scanners, store>>
         /\ last' = Call("remove_garment", Missing, "False", 0, 0, None)
    ELSE /\ garments' = DictDel(garments, tag_id)
         /\ store' = async_save(scanners, garments', save_ok)
         /\ UNCHANGED scanners
         /\ last' = Call("remove_garment", tag_id, "True", 1, 1, None)

\* Faulty variant: a scanner that is registered already keeps its entry.
async_register_scanner_keeps_role(scanner_id, role, name, save_ok) ==
    /\ scanners' = IF scanner_id \in DOMAIN scanners
                   THEN scanners
                   ELSE DictSet(scanners, scanner_id,
                                [role |-> role, name |-> name])
    /\ store' = async_save(scanners', garments, save_ok)
    /\ UNCHANGED garments
    /\ last' = Call("register_scanner", Missing, "None", 1, 0, None)

async_register_scanner(scanner_id, role, name, save_ok) ==
    /\ scanners' = DictSet(scanners, scanner_id, [role |-> role, name |-> name])
    /\ store' = async_save(scanners', garments, save_ok)
    /\ UNCHANGED garments
    /\ last' = Call("register_scanner", Missing, "None", 1, 0, None)

\* Faulty variant: forcing a garment into worn counts a wear, as a scan would.
async_force_state_counts_wear(tag_id, state, save_ok) ==
    IF tag_id \notin DOMAIN garments
    THEN /\ UNCHANGED <<garments, scanners, store>>
         /\ last' = Call("force_state", Missing, "False", 0, 0, None)
    ELSE /\ garments' =
              [garments EXCEPT ![tag_id] =
                  IF state = "worn"
                  THEN [@ EXCEPT !.garment_state = state,
                                 !.wear_count_since_wash = @ + 1,
                                 !.total_wear_count = @ + 1]
                  ELSE [@ EXCEPT !.garment_state = state]]
         /\ store' = async_save(scanners, garments', save_ok)
         /\ UNCHANGED scanners
         /\ last' = Call("force_state", tag_id, "True", 1, 1, None)

async_force_state(tag_id, state, save_ok) ==
    IF tag_id \notin DOMAIN garments
    THEN /\ UNCHANGED <<garments, scanners, store>>
         /\ last' = Call("force_state", Missing, "False", 0, 0, None)
    ELSE /\ garments' = [garments EXCEPT ![tag_id].garment_state = state]
         /\ store' = async_save(scanners, garments', save_ok)
         /\ UNCHANGED scanners
         /\ last' = Call("force_state", tag_id, "True", 1, 1, None)

\* Faulty variant: a manual wash does not reset the wear count.
async_log_wash_cycle_keeps_count(tag_id, method, now, save_ok) ==
    IF tag_id \notin DOMAIN garments
    THEN /\ UNCHANGED <<garments, scanners, store>>
         /\ last' = Call("log_wash_cycle", Missing, "False", 0, 0, None)
    ELSE /\ garments' =
              [garments EXCEPT ![tag_id] =
                  [@ EXCEPT !.garment_state = "washing",
                            !.last_washed = Some(now),
                            !.wash_cycles = Append(@, WashCycle(now, method))]]
         /\ store' = async_save(scanners, garments', save_ok)
         /\ UNCHANGED scanners
         /\ last' = Call("log_wash_cycle", tag_id, "True", 1, 1, None)

\* Faulty variant: a manual wash is stamped as if a reader had scanned it.
async_log_wash_cycle_stamps_scan(tag_id, method, now, save_ok) ==
    IF tag_id \notin DOMAIN garments
    THEN /\ UNCHANGED <<garments, scanners, store>>
         /\ last' = Call("log_wash_cycle", Missing, "False", 0, 0, None)
    ELSE /\ garments' =
              [garments EXCEPT ![tag_id] =
                  [@ EXCEPT !.garment_state = "washing",
                            !.wear_count_since_wash = 0,
                            !.last_washed = Some(now),
                            !.last_scanned_at = Some("manual"),
                            !.wash_cycles = Append(@, WashCycle(now, method))]]
         /\ store' = async_save(scanners, garments', save_ok)
         /\ UNCHANGED scanners
         /\ last' = Call("log_wash_cycle", tag_id, "True", 1, 1, None)

\* Faulty variant: a manual wash is logged with the scan's method "machine".
async_log_wash_cycle_machine_method(tag_id, method, now, save_ok) ==
    IF tag_id \notin DOMAIN garments
    THEN /\ UNCHANGED <<garments, scanners, store>>
         /\ last' = Call("log_wash_cycle", Missing, "False", 0, 0, None)
    ELSE /\ garments' =
              [garments EXCEPT ![tag_id] =
                  [@ EXCEPT !.garment_state = "washing",
                            !.wear_count_since_wash = 0,
                            !.last_washed = Some(now),
                            !.wash_cycles = Append(@, WashCycle(now, "machine"))]]
         /\ store' = async_save(scanners, garments', save_ok)
         /\ UNCHANGED scanners
         /\ last' = Call("log_wash_cycle", tag_id, "True", 1, 1, None)

\* Faulty variant: a manual wash does not stamp last_washed.
async_log_wash_cycle_unstamped(tag_id, method, now, save_ok) ==
    IF tag_id \notin DOMAIN garments
    THEN /\ UNCHANGED <<garments, scanners, store>>
         /\ last' = Call("log_wash_cycle", Missing, "False", 0, 0, None)
    ELSE /\ garments' =
              [garments EXCEPT ![tag_id] =
                  [@ EXCEPT !.garment_state = "washing",
                            !.wear_count_since_wash = 0,
                            !.wash_cycles = Append(@, WashCycle(now, method))]]
         /\ store' = async_save(scanners, garments', save_ok)
         /\ UNCHANGED scanners
         /\ last' = Call("log_wash_cycle", tag_id, "True", 1, 1, None)

async_log_wash_cycle(tag_id, method, now, save_ok) ==
    IF tag_id \notin DOMAIN garments
    THEN /\ UNCHANGED <<garments, scanners, store>>
         /\ last' = Call("log_wash_cycle", Missing, "False", 0, 0, None)
    ELSE /\ garments' =
              [garments EXCEPT ![tag_id] =
                  [@ EXCEPT !.garment_state = "washing",
                            !.wear_count_since_wash = 0,
                            !.last_washed = Some(now),
                            !.wash_cycles = Append(@, WashCycle(now, method))]]
         /\ store' = async_save(scanners, garments', save_ok)
         /\ UNCHANGED scanners
         /\ last' = Call("log_wash_cycle", tag_id, "True", 1, 1, None)

\* async_load: the directories read from the stored document; a missing
\* document (None) gives two empty maps.
async_load_scanners(stored) ==
    IF stored = None THEN [x \in {} |-> None] ELSE stored[1].scanners

async_load_garments(stored) ==
    IF stored = None
    THEN [x \in {} |-> None]
    ELSE [t \in DOMAIN stored[1].garments |->
            from_dict(t, stored[1].garments[t])]

---------------------------------------------------------------------------
(* config_flow.py *)

\* WardrobeManagerOptionsFlow.async_step_remove_scanner with a submitted
\* form: the scanner_id is one of the listed (registered) scanners.
async_step_remove_scanner(scanner_id, save_ok) ==
    /\ DOMAIN scanners # {}
    /\ scanner_id \in DOMAIN scanners
    /\ scanners' = DictDel(scanners, scanner_id)
    /\ store' = async_save(scanners', garments, save_ok)
    /\ UNCHANGED garments
    /\ last' = Call("remove_scanner", Missing, "create_entry", 1, 0, None)

---------------------------------------------------------------------------
(* Spec: the coordinator after setup, driven by scan events and the        *)
(* garment services.  The scanner directory is the one loaded from         *)
(* storage.                                                                *)

\* The exploration stops growing a garment's history at the bounds.
Bounded(gs) ==
    \A t \in DOMAIN gs :
        /\ gs[t].total_wear_count <= MaxWear
        /\ Len(gs[t].wash_cycles) <= MaxWashes

\* The document a previous run left in the Store.
StoredDocument ==
    Some([scanners |-> LoadedScanners, garments |-> [x \in {} |-> None]])

\* async_setup_entry: WardrobeDataUpdateCoordinator.__init__, then async_load.
Init ==
    /\ store = StoredDocument
    /\ scanners = async_load_scanners(store)
    /\ garments = async_load_garments(store)
    /\ last = Call("async_load", Missing, "None", 0, 1, None)
    /\ scans = <<>>
    /\ failed = 0
    /\ tasks = <<>>
    /\ entries = <<"Wardrobe Manager">>
    /\ flows = 0
    /\ event_entities = NoEntities

Scan ==
    \E ev \in ScanEvents, now \in Times, save_ok \in SaveOutcomes :
        /\ handle_tag_scanned(ev.tag_id, ev.scanner_id, now, save_ok)
        /\ Bounded(garments')
        /\ UNCHANGED <<scans, failed, tasks, entries, flows,
                     event_entities>>

RegisterGarment ==
    \E tag_id \in TagIds, in \in GarmentInputs, save_ok \in SaveOutcomes :
        /\ async_register_garment(tag_id, in.name, in.category, in.color,
                                  in.needs_washing_threshold, save_ok)
        /\ UNCHANGED <<scans, failed, tasks, entries, flows,
                     event_entities>>

RemoveGarment ==
    \E tag_id \in TagIds, save_ok \in SaveOutcomes :
        /\ async_remove_garment(tag_id, save_ok)
        /\ UNCHANGED <<scans, failed, tasks, entries, flows,
                     event_entities>>

ForceState ==
    \E tag_id \in TagIds, state \in GarmentState, save_ok \in SaveOutcomes :
        /\ async_force_state(tag_id, state, save_ok)
        /\ UNCHANGED <<scans, failed, tasks, entries, flows,
                     event_entities>>

LogWashCycle ==
    \E tag_id \in TagIds, method \in Methods, now \in Times,
       save_ok \in SaveOutcomes :
        /\ async_log_wash_cycle(tag_id, method, now, save_ok)
        /\ Bounded(garments')
        /\ UNCHANGED <<scans, failed, tasks, entries, flows,
                     event_entities>>

Next ==
    \/ Scan
    \/ RegisterGarment
    \/ RemoveGarment
    \/ ForceState
    \/ LogWashCycle

Spec == Init /\ [][Next]_vars

---------------------------------------------------------------------------
(* SpecEngine: transition() called directly on a garment, as the unit      *)
(* tests call it, starting from any garment record of the bounded sets.    *)

\* A direct call transition(g, role, scanner_id) on the garment under test.
Transition(tag_id, scanner_role, scanner_id, now) ==
    LET result == transition(garments[tag_id], scanner_role, scanner_id, now)
    IN  /\ garments' = [garments EXCEPT ![tag_id] = result.garment]
        /\ last' = Call("transition", tag_id,
                        IF result.returned = None THEN "None" ELSE "garment",
                        0, 0, None)
        /\ UNCHANGED <<scanners, store>>

EngineScannerIds == {"nfc_closet", "nfc_other"}

\* _make_garment(state, **kwargs): a garment built with chosen field values
EngineGarments ==
    { [GarmentData("t1", "Test Shirt", "shirt", "white",
                   DEFAULT_NEEDS_WASHING_THRESHOLD)
        EXCEPT !.garment_state = st,
               !.wear_count_since_wash = w,
               !.total_wear_count = n,
               !.last_worn = lw,
               !.last_washed = lwa,
               !.last_scanned_at = sc,
               !.wash_cycles = wc] :
        st \in GarmentState, w \in 0..MaxWear, n \in 0..MaxWear,
        lw \in {None, Some(Time1)}, lwa \in {None, Some(Time1)},
        sc \in {None, Some("nfc_other")},
        wc \in {<<>>, <<WashCycle(Time1, "hand")>>} }

InitEngine ==
    /\ garments \in { [t \in {"t1"} |-> g] : g \in EngineGarments }
    /\ scanners = [x \in {} |-> None]
    /\ store = None
    /\ last = Call("make_garment", "t1", "garment", 0, 0, None)
    /\ scans = <<>>
    /\ failed = 0
    /\ tasks = <<>>
    /\ entries = <<>>
    /\ flows = 0
    /\ event_entities = NoEntities

EngineScan ==
    \E role \in ScannerRole, scanner_id \in EngineScannerIds, now \in Times :
        /\ Transition("t1", role, scanner_id, now)
        /\ Bounded(garments')
        /\ UNCHANGED <<scans, failed, tasks, entries, flows,
                     event_entities>>

NextEngine == EngineScan

SpecEngine == InitEngine /\ [][NextEngine]_vars

---------------------------------------------------------------------------
(* SpecLifecycle: runs of scans on one freshly made garment, each scan     *)
(* recorded with its outcome.                                              *)

InitLifecycle ==
    /\ garments = [t \in {"t1"} |->
                      GarmentData("t1", "Test Shirt", "shirt", "white",
                                  DEFAULT_NEEDS_WASHING_THRESHOLD)]
    /\ scanners = [x \in {} |-> None]
    /\ store = None
    /\ last = Call("make_garment", "t1", "garment", 0, 0, None)
    /\ scans = <<>>
    /\ failed = 0
    /\ tasks = <<>>
    /\ entries = <<>>
    /\ flows = 0
    /\ event_entities = NoEntities

LifecycleScan ==
    \E role \in ScannerRole, now \in Times :
        /\ Len(scans) < MaxScans
        /\ Transition("t1", role, "s", now)
        /\ scans' = Append(scans, [role |-> role,
                                   accepted |-> last'.result = "garment"])
        /\ UNCHANGED <<failed, tasks, entries, flows,
                     event_entities>>

NextLifecycle == LifecycleScan

SpecLifecycle == InitLifecycle /\ [][NextLifecycle]_vars

---------------------------------------------------------------------------
(* The transition table as the specification prints it: (scanner role,     *)
(* from state, to state).                                                  *)

SpecTable ==
    { <<"closet", "clean", "worn">>,
      <<"closet", "worn", "clean">>,
      <<"closet", "in_laundry_bin", "clean">>,
      <<"closet", "drying", "clean">>,
      <<"closet", "needs_ironing", "clean">>,
      <<"laundry_bin", "worn", "in_laundry_bin">>,
      <<"washer", "in_laundry_bin", "washing">>,
      <<"dryer", "washing", "drying">>,
      <<"ironing", "drying", "needs_ironing">>,
      <<"ironing", "washing", "needs_ironing">> }

InTable(role, state) == \E e \in SpecTable : e[1] = role /\ e[2] = state

Target(role, state) ==
    (CHOOSE e \in SpecTable : e[1] = role /\ e[2] = state)[3]

\* The garment under test in SpecEngine and SpecLifecycle.
G == garments["t1"]

---------------------------------------------------------------------------
(* Properties of transition(), under SpecEngine.                           *)

\* C1: a call of transition with a (role, from state) pair of the table is
\* accepted: it returns the garment, the garment's state is the tabulated
\* target and its last_scanned_at is the scanner id passed in.
C1_TableEntryAccepted ==
    [][\A role \in ScannerRole, scanner_id \in EngineScannerIds, now \in Times :
          (/\ Transition("t1", role, scanner_id, now)
           /\ InTable(role, G.garment_state))
          => /\ last'.result = "garment"
             /\ G'.garment_state = Target(role, G.garment_state)
             /\ G'.last_scanned_at = Some(scanner_id)]_vars

\* An accepted ironing scan of a washing or drying garment has just been made
\* by the closet reader's id.
C1_Witness ==
    /\ last.op = "transition"
    /\ last.result = "garment"
    /\ G.garment_state = "needs_ironing"
    /\ G.last_scanned_at = Some("nfc_closet")

\* C2: a call of transition with a (role, state) pair that is not in the
\* table returns None and leaves every field of the garment as it was, and
\* the same call made again on the garment it left is rejected again and
\* again changes nothing.
C2_RejectedCallChangesNothing ==
    [][\A role \in ScannerRole, scanner_id \in EngineScannerIds, now \in Times :
          (/\ Transition("t1", role, scanner_id, now)
           /\ ~InTable(role, G.garment_state))
          => /\ last'.result = "None"
             /\ G' = G
             /\ transition(G', role, scanner_id, now).returned = None
             /\ transition(G', role, scanner_id, now).garment = G]_vars

\* A washer scan of a worn garment has just been rejected.
C2_Witness ==
    /\ last.op = "transition"
    /\ last.result = "None"
    /\ G.garment_state = "worn"
    /\ G.total_wear_count > 0

\* C3: an accepted transition into worn adds exactly 1 to
\* wear_count_since_wash and to total_wear_count, sets last_worn to the
\* current time and changes neither last_washed nor wash_cycles.
C3_WornCountsOneWear ==
    [][\A role \in ScannerRole, scanner_id \in EngineScannerIds, now \in Times :
          (/\ Transition("t1", role, scanner_id, now)
           /\ last'.result = "garment"
           /\ G'.garment_state = "worn")
          => /\ G'.wear_count_since_wash = G.wear_count_since_wash + 1
             /\ G'.total_wear_count = G.total_wear_count + 1
             /\ G'.last_worn = Some(now)
             /\ G'.last_washed = G.last_washed
             /\ G'.wash_cycles = G.wash_cycles]_vars

\* A garment with a wash on record has just been taken from the closet at
\* the second clock reading.
C3_Witness ==
    /\ last.op = "transition"
    /\ last.result = "garment"
    /\ G.garment_state = "worn"
    /\ G.last_worn = Some(Time2)
    /\ G.wash_cycles # <<>>
    /\ G.total_wear_count = 2

\* C4: an accepted transition into washing sets wear_count_since_wash to 0,
\* leaves total_wear_count and last_worn as they were, sets last_washed to
\* the current time and appends exactly one record, with that timestamp and
\* method "machine", at the end of wash_cycles.
C4_WashingResetsAndLogs ==
    [][\A role \in ScannerRole, scanner_id \in EngineScannerIds, now \in Times :
          (/\ Transition("t1", role, scanner_id, now)
           /\ last'.result = "garment"
           /\ G'.garment_state = "washing")
          => /\ G'.wear_count_since_wash = 0
             /\ G'.total_wear_count = G.total_wear_count
             /\ G'.last_worn = G.last_worn
             /\ G'.last_washed = Some(now)
             /\ G'.wash_cycles =
                    G.wash_cycles \o <<[timestamp |-> now, method |-> "machine"]>>]_vars

\* A worn-twice garment with an earlier hand wash on record has just gone
\* into the washer.
C4_Witness ==
    /\ last.op = "transition"
    /\ last.result = "garment"
    /\ G.garment_state = "washing"
    /\ G.total_wear_count = 2
    /\ Len(G.wash_cycles) = 2
    /\ G.wash_cycles[1].method = "hand"
    /\ G.wash_cycles[2] = [timestamp |-> Time2, method |-> "machine"]

---------------------------------------------------------------------------
(* Properties of scan runs on a fresh garment, under SpecLifecycle.        *)

Roles(sc) == [i \in DOMAIN sc |-> sc[i].role]

IsPrefix(a, b) == Len(a) <= Len(b) /\ \A i \in DOMAIN a : a[i] = b[i]

AllAccepted == \A i \in DOMAIN scans : scans[i].accepted

DryerRun == <<"closet", "laundry_bin", "washer", "dryer", "closet">>
IroningRun == <<"closet", "laundry_bin", "washer", "ironing", "closet">>
DryerIroningRun ==
    <<"closet", "laundry_bin", "washer", "dryer", "ironing", "closet">>

\* C5: on a clean garment without wash history the run closet, laundry_bin,
\* washer, dryer, closet is accepted at every step and ends in clean with
\* exactly one wash cycle on record; the runs with the ironing scan in place
\* of, or after, the dryer scan are accepted at every step and end in clean.
C5_LifecycleRuns ==
    /\ \A run \in {DryerRun, IroningRun, DryerIroningRun} :
          /\ IsPrefix(Roles(scans), run) => AllAccepted
          /\ Roles(scans) = run => G.garment_state = "clean"
    /\ Roles(scans) = DryerRun => Len(G.wash_cycles) = 1

C5_Witness ==
    /\ Roles(scans) = DryerRun
    /\ last.op = "transition"

\* C6: after k closet scans and nothing else on a clean garment with
\* counters (0, 0), every scan was accepted, the garment is worn for odd k
\* and clean for even k, and both counters equal the number of clean-to-worn
\* steps, (k + 1) / 2 rounded down: the returns leave them alone.
C6_ClosetScansAlternate ==
    (\A i \in DOMAIN scans : scans[i].role = "closet")
    => /\ AllAccepted
       /\ G.garment_state = IF Len(scans) % 2 = 1 THEN "worn" ELSE "clean"
       /\ G.wear_count_since_wash = (Len(scans) + 1) \div 2
       /\ G.total_wear_count = (Len(scans) + 1) \div 2

\* Three wear cycles: the fifth closet scan leaves the counters at (3, 3).
C6_Witness ==
    /\ Len(scans) = 5
    /\ \A i \in DOMAIN scans : scans[i].role = "closet"
    /\ G.garment_state = "worn"
    /\ G.wear_count_since_wash = 3
    /\ G.total_wear_count = 3

---------------------------------------------------------------------------
(* Properties of the coordinator, under Spec.                              *)

\* The step is handle_tag_scanned of event ev.
ScanStep(ev) ==
    /\ last'.op = "scan"
    /\ \E now \in Times, save_ok \in SaveOutcomes :
          handle_tag_scanned(ev.tag_id, ev.scanner_id, now, save_ok)

\* Event ev names a registered garment and a reader whose role and the
\* garment's state are a pair of the specification's table.
TableAccepts(ev) ==
    /\ ev.tag_id \in DOMAIN garments
    /\ ev.scanner_id \in DOMAIN scanners
    /\ InTable(scanners[ev.scanner_id].role, garments[ev.tag_id].garment_state)

\* C7: last_scanned_at of a registered garment is the scanner id of the most
\* recent accepted scan of it and unset when it has had none: an accepted
\* scan sets it to its scanner id, a registration starts it unset, and no
\* other call (rejected or ignored scan, force-state, log-wash) changes it.
C7_LastScannedAtIsLatestAcceptedScan ==
    [][\A t \in TagIds :
          t \in DOMAIN garments' =>
             LET accepted == IF last'.op = "scan"
                             THEN { ev \in ScanEvents :
                                      /\ ev.tag_id = t
                                      /\ TableAccepts(ev)
                                      /\ ScanStep(ev) }
                             ELSE {}
             IN  IF accepted # {}
                 THEN \A ev \in accepted :
                         garments'[t].last_scanned_at = Some(ev.scanner_id)
                 ELSE IF last'.op = "register_garment"
                 THEN garments'[t].last_scanned_at = None
                 ELSE /\ t \in DOMAIN garments
                      /\ garments'[t].last_scanned_at =
                             garments[t].last_scanned_at]_vars

\* After a closet scan and a laundry-bin scan the garment was washed by hand:
\* the laundry-bin reader is still the last scanner.
C7_Witness ==
    /\ last.op = "log_wash_cycle"
    /\ last.result = "True"
    /\ "t1" \in DOMAIN garments
    /\ garments["t1"].last_scanned_at = Some("nfc_laundry_bin")
    /\ garments["t1"].last_worn # None

\* C8: force-state on a registered tag returns true and sets the state to
\* the requested value, whatever the state was, and leaves
\* wear_count_since_wash, total_wear_count, last_worn, last_washed,
\* last_scanned_at and wash_cycles as they were; on an unknown tag it
\* returns false and changes nothing.
C8_ForceStateSetsOnlyState ==
    [][\A tag_id \in TagIds, state \in GarmentState, save_ok \in SaveOutcomes :
          async_force_state(tag_id, state, save_ok) =>
             IF tag_id \in DOMAIN garments
             THEN /\ last'.result = "True"
                  /\ tag_id \in DOMAIN garments'
                  /\ garments'[tag_id].garment_state = state
                  /\ garments'[tag_id].wear_count_since_wash =
                         garments[tag_id].wear_count_since_wash
                  /\ garments'[tag_id].total_wear_count =
                         garments[tag_id].total_wear_count
                  /\ garments'[tag_id].last_worn = garments[tag_id].last_worn
                  /\ garments'[tag_id].last_washed = garments[tag_id].last_washed
                  /\ garments'[tag_id].last_scanned_at =
                         garments[tag_id].last_scanned_at
                  /\ garments'[tag_id].wash_cycles = garments[tag_id].wash_cycles
             ELSE /\ last'.result = "False"
                  /\ UNCHANGED <<garments, scanners, store>>]_vars

\* A garment that was never worn has been forced into worn, which the table
\* reaches only with a counted wear.
C8_Witness ==
    /\ last.op = "force_state"
    /\ last.result = "True"
    /\ "t1" \in DOMAIN garments
    /\ garments["t1"].garment_state = "worn"
    /\ garments["t1"].total_wear_count = 0
    /\ garments["t1"].last_worn = None

\* C9: log-wash-cycle on a registered tag, from any state, returns true,
\* sets the state to washing, wear_count_since_wash to 0 and last_washed to
\* the current time, appends exactly one wash-cycle record with the caller's
\* method, and leaves total_wear_count, last_worn and last_scanned_at as
\* they were; on an unknown tag it returns false and changes nothing.
C9_LogWashCycleEffects ==
    [][\A tag_id \in TagIds, method \in Methods, now \in Times,
          save_ok \in SaveOutcomes :
          async_log_wash_cycle(tag_id, method, now, save_ok) =>
             IF tag_id \in DOMAIN garments
             THEN /\ last'.result = "True"
                  /\ tag_id \in DOMAIN garments'
                  /\ garments'[tag_id].garment_state = "washing"
                  /\ garments'[tag_id].wear_count_since_wash = 0
                  /\ garments'[tag_id].last_washed = Some(now)
                  /\ garments'[tag_id].wash_cycles =
                         garments[tag_id].wash_cycles
                         \o <<[timestamp |-> now, method |-> method]>>
                  /\ garments'[tag_id].total_wear_count =
                         garments[tag_id].total_wear_count
                  /\ garments'[tag_id].last_worn = garments[tag_id].last_worn
                  /\ garments'[tag_id].last_scanned_at =
                         garments[tag_id].last_scanned_at
             ELSE /\ last'.result = "False"
                  /\ UNCHANGED <<garments, scanners, store>>]_vars

\* A garment worn once and machine-washed once has been washed by hand while
\* it was worn again.
C9_Witness ==
    /\ last.op = "log_wash_cycle"
    /\ last.result = "True"
    /\ "t1" \in DOMAIN garments
    /\ Len(garments["t1"].wash_cycles) = 2
    /\ garments["t1"].wash_cycles[1].method = "machine"
    /\ garments["t1"].wash_cycles[2] = [timestamp |-> Time2, method |-> "hand"]
    /\ garments["t1"].total_wear_count = 2

\* C10: across scans, force-state calls, log-wash calls and register-garment
\* calls for a tag, total_wear_count of that tag never decreases.
C10_TotalWearCountNeverDecreases ==
    [][\A t \in TagIds :
          (/\ t \in DOMAIN garments
           /\ t \in DOMAIN garments'
           /\ last'.op \in {"scan", "force_state", "log_wash_cycle",
                            "register_garment"})
          => garments'[t].total_wear_count >=
                 garments[t].total_wear_count]_vars

\* The same with the register-garment calls left out.
C10_TotalWearCountKeptWithoutRegistration ==
    [][\A t \in TagIds :
          (/\ t \in DOMAIN garments
           /\ t \in DOMAIN garments'
           /\ last'.op \in {"scan", "force_state", "log_wash_cycle"})
          => garments'[t].total_wear_count >=
                 garments[t].total_wear_count]_vars

---------------------------------------------------------------------------
(* Properties of the garment records the coordinator keeps, under Spec.    *)

\* C11: wash_cycles of a tag is append-only across scans, force-state calls,
\* log-wash calls and register-garment calls for it: every such call leaves
\* the entries recorded so far in place and in order, so the length never
\* shrinks.
C11_WashCyclesAppendOnly ==
    [][\A t \in TagIds :
          (/\ t \in DOMAIN garments
           /\ t \in DOMAIN garments'
           /\ last'.op \in {"scan", "force_state", "log_wash_cycle",
                            "register_garment"})
          => IsPrefix(garments[t].wash_cycles, garments'[t].wash_cycles)]_vars

\* C12 as claimed: a garment whose state is washing has
\* wear_count_since_wash equal to 0.
C12_WashingHasZeroCount ==
    \A t \in DOMAIN garments :
        garments[t].garment_state = "washing"
        => garments[t].wear_count_since_wash = 0

\* C12, amended: a garment is washing with a non-zero wear_count_since_wash
\* only by a force-state call into washing (and for as long as no call
\* changes it); an accepted scan into washing and a log-wash call leave the
\* counter at 0, and the counter only ever increases by one, on an accepted
\* scan into worn.
C12_WashingCountNonZeroOnlyByForceState ==
    [][\A t \in TagIds :
          (t \in DOMAIN garments /\ t \in DOMAIN garments') =>
             /\ (/\ garments'[t].garment_state = "washing"
                 /\ garments'[t].wear_count_since_wash # 0)
                => \/ \E save_ok \in SaveOutcomes :
                         async_force_state(t, "washing", save_ok)
                   \/ garments'[t] = garments[t]
             /\ garments'[t].wear_count_since_wash >
                    garments[t].wear_count_since_wash
                => /\ last' = Call("scan", t, "None", 1, 1, None)
                   /\ garments'[t].garment_state = "worn"
                   /\ garments'[t].wear_count_since_wash =
                          garments[t].wear_count_since_wash + 1]_vars

\* A garment worn twice has just been scanned into the washer.
C12_Witness ==
    /\ last = Call("scan", "t1", "None", 1, 1, None)
    /\ "t1" \in DOMAIN garments
    /\ garments["t1"].garment_state = "washing"
    /\ garments["t1"].last_scanned_at = Some("nfc_washer")
    /\ garments["t1"].total_wear_count = 2
    /\ garments["t1"].wear_count_since_wash = 0

---------------------------------------------------------------------------
(* Properties of handle_tag_scanned's ignored scans, under Spec.           *)

\* The scanner directory holds scanner_id with one of the five roles.
Resolves(scanner_id) ==
    /\ scanner_id \in DOMAIN scanners
    /\ scanners[scanner_id].role \in ScannerRole

\* The change made by a step is none at all: both directories and the
\* stored document are as before, and the call made no persistence attempt,
\* sent no change notification and fired no unknown-tag event.
Silent ==
    /\ UNCHANGED <<garments, scanners, store>>
    /\ last'.saves = 0
    /\ last'.notified = 0
    /\ last'.signal = None

\* C14: a scan of a registered garment by a registered reader whose (role,
\* state) pair is not in the table changes neither the garment nor a
\* directory, makes no persistence call and fires neither a change
\* notification nor an unknown-tag signal.
C14_RejectedScanIsSilent ==
    [][~Silent =>
          \A ev \in ScanEvents :
             ~(/\ ev.tag_id \in DOMAIN garments
               /\ Resolves(ev.scanner_id)
               /\ ~InTable(scanners[ev.scanner_id].role,
                           garments[ev.tag_id].garment_state)
               /\ ScanStep(ev))]_vars

\* A garment taken from the dryer's reader is in a state only the closet and
\* the ironing reader accept, and the last scan event did nothing.
C14_Witness ==
    /\ last = Call("scan", Missing, "None", 0, 0, None)
    /\ "t1" \in DOMAIN garments
    /\ garments["t1"].garment_state = "drying"
    /\ garments["t1"].last_scanned_at = Some("nfc_dryer")
    /\ store = Some(SaveData(scanners, garments))

\* C17: a scan event whose tag_id or scanner_id is missing or empty is
\* ignored: no garment or scanner record changes, no persistence call is
\* made, and neither a change notification nor an unknown-tag signal is
\* fired, whatever the directories hold.
C17_MalformedEventIgnored ==
    [][\A ev \in ScanEvents :
          (/\ (ev.tag_id = Missing \/ ev.scanner_id = Missing)
           /\ ScanStep(ev))
          => Silent]_vars

\* No garment is registered, so that a scan of a tag by a registered reader
\* would have fired the unknown-tag signal; the last scan event fired none.
C17_Witness ==
    /\ last = Call("scan", Missing, "None", 0, 0, None)
    /\ DOMAIN garments = {}
    /\ "nfc_closet" \in DOMAIN scanners

---------------------------------------------------------------------------
(* SpecHistory: the coordinator as in Spec, with scans recording the tags  *)
(* that have had an accepted scan since they were registered.              *)

InitHistory ==
    /\ store = StoredDocument
    /\ scanners = async_load_scanners(store)
    /\ garments = async_load_garments(store)
    /\ last = Call("async_load", Missing, "None", 0, 1, None)
    /\ scans = {}
    /\ failed = 0
    /\ tasks = <<>>
    /\ entries = <<"Wardrobe Manager">>
    /\ flows = 0
    /\ event_entities = NoEntities

\* A scan event; the scan was accepted when the handler went on to persist.
HistoryScan ==
    \E ev \in ScanEvents, now \in Times, save_ok \in SaveOutcomes :
        /\ handle_tag_scanned(ev.tag_id, ev.scanner_id, now, save_ok)
        /\ Bounded(garments')
        /\ scans' = IF last'.saves = 1 THEN scans \cup {ev.tag_id} ELSE scans
        /\ UNCHANGED <<failed, tasks, entries, flows,
                     event_entities>>

HistoryRegisterGarment ==
    \E tag_id \in TagIds, in \in GarmentInputs, save_ok \in SaveOutcomes :
        /\ async_register_garment(tag_id, in.name, in.category, in.color,
                                  in.needs_washing_threshold, save_ok)
        /\ scans' = scans \ {tag_id}
        /\ UNCHANGED <<failed, tasks, entries, flows,
                     event_entities>>

HistoryRemoveGarment ==
    \E tag_id \in TagIds, save_ok \in SaveOutcomes :
        /\ async_remove_garment(tag_id, save_ok)
        /\ scans' = scans \ {tag_id}
        /\ UNCHANGED <<failed, tasks, entries, flows,
                     event_entities>>

NextHistory ==
    \/ HistoryScan
    \/ HistoryRegisterGarment
    \/ HistoryRemoveGarment
    \/ ForceState
    \/ LogWashCycle

SpecHistory == InitHistory /\ [][NextHistory]_vars

\* C13 as claimed: a garment that has had no accepted scan since it was
\* registered has last_worn, last_washed and last_scanned_at unset and both
\* wear counters at zero.
C13_NoScanMeansAllUnset ==
    \A t \in DOMAIN garments \ scans :
        /\ garments[t].last_worn = None
        /\ garments[t].last_washed = None
        /\ garments[t].last_scanned_at = None
        /\ garments[t].wear_count_since_wash = 0
        /\ garments[t].total_wear_count = 0

\* C13, amended: a garment that has had no accepted scan since it was
\* registered has last_worn and last_scanned_at unset and both wear counters
\* at zero; its last_washed is unset unless a wash was logged for it by
\* hand, and then last_washed is the time of the last logged wash and no
\* wash-cycle record of it is a scan's.
C13_NoScanMeansUnsetButManualWash ==
    \A t \in DOMAIN garments \ scans :
        /\ garments[t].last_worn = None
        /\ garments[t].last_scanned_at = None
        /\ garments[t].wear_count_since_wash = 0
        /\ garments[t].total_wear_count = 0
        /\ \A i \in DOMAIN garments[t].wash_cycles :
              garments[t].wash_cycles[i].method \in Methods
        /\ garments[t].last_washed =
               IF garments[t].wash_cycles = <<>>
               THEN None
               ELSE Some(garments[t].wash_cycles[
                             Len(garments[t].wash_cycles)].timestamp)

\* A garment that no reader has accepted since its registration was washed
\* by hand twice and then forced into worn.
C13_Witness ==
    /\ "t1" \in DOMAIN garments
    /\ "t1" \notin scans
    /\ last.op = "force_state"
    /\ garments["t1"].garment_state = "worn"
    /\ Len(garments["t1"].wash_cycles) = 2
    /\ garments["t1"].last_washed = Some(Time2)

---------------------------------------------------------------------------
(* SpecDirectory: the coordinator with a scanner directory that changes:   *)
(* readers are registered by the register_scanner service and removed by   *)
(* the options flow.  Storage holds one reader whose role is none of the   *)
(* five, and tags are scanned that are never registered.                   *)

\* handle_register_scanner calls: the schema admits the five roles only
ScannerInputs ==
    { [scanner_id |-> "nfc_hall", role |-> r, name |-> "reader"] :
        r \in {"closet", "washer"} }

\* The document a previous run left in the Store: a reader with a role that
\* ScannerRole does not know.
StoredDirectory ==
    Some([scanners |-> [s \in {"nfc_old"} |->
                           [role |-> "garage", name |-> "reader"]],
          garments |-> [x \in {} |-> None]])

DirectoryScanEvents ==
    { [tag_id |-> t, scanner_id |-> s] :
        t \in TagIds \cup {"t2"}, s \in {"nfc_hall", "nfc_old"} }

InitDirectory ==
    /\ store = StoredDirectory
    /\ scanners = async_load_scanners(store)
    /\ garments = async_load_garments(store)
    /\ last = Call("async_load", Missing, "None", 0, 1, None)
    /\ scans = <<>>
    /\ failed = 0
    /\ tasks = <<>>
    /\ entries = <<"Wardrobe Manager">>
    /\ flows = 0
    /\ event_entities = NoEntities

DirectoryScan ==
    \E ev \in DirectoryScanEvents, save_ok \in SaveOutcomes :
        /\ handle_tag_scanned(ev.tag_id, ev.scanner_id, Time1, save_ok)
        /\ Bounded(garments')
        /\ UNCHANGED <<scans, failed, tasks, entries, flows,
                     event_entities>>

RegisterScanner ==
    \E in \in ScannerInputs, save_ok \in SaveOutcomes :
        /\ async_register_scanner(in.scanner_id, in.role, in.name, save_ok)
        /\ UNCHANGED <<scans, failed, tasks, entries, flows,
                     event_entities>>

RemoveScanner ==
    \E scanner_id \in DOMAIN scanners, save_ok \in SaveOutcomes :
        /\ async_step_remove_scanner(scanner_id, save_ok)
        /\ UNCHANGED <<scans, failed, tasks, entries, flows,
                     event_entities>>

NextDirectory ==
    \/ DirectoryScan
    \/ RegisterScanner
    \/ RemoveScanner
    \/ RegisterGarment
    \/ RemoveGarment
    \/ ForceState
    \/ LogWashCycle

SpecDirectory == InitDirectory /\ [][NextDirectory]_vars


\* The step is handle_tag_scanned of event ev, in SpecDirectory.
DirectoryScanStep(ev) ==
    /\ last'.op = "scan"
    /\ \E save_ok \in SaveOutcomes :
          handle_tag_scanned(ev.tag_id, ev.scanner_id, Time1, save_ok)

\* C15: a scan of a tag that is not in the garment directory by a reader
\* that resolves to a role fires one unknown-tag signal carrying the tag_id
\* and the reader's role, creates no garment record, changes no existing
\* record, and triggers neither persistence nor a change notification.
C15_UnknownTagSignalled ==
    [][\A ev \in DirectoryScanEvents :
          (/\ ev.tag_id \notin DOMAIN garments
           /\ Resolves(ev.scanner_id)
           /\ DirectoryScanStep(ev))
          => /\ last'.signal =
                    Some([tag_id |-> ev.tag_id,
                          scanner_role |-> scanners[ev.scanner_id].role])
             /\ UNCHANGED <<garments, scanners, store>>
             /\ last'.saves = 0
             /\ last'.notified = 0]_vars

\* Tag t2 was scanned at the washer's reader while t1 is a registered
\* garment that has been worn.
C15_Witness ==
    /\ last.signal = Some([tag_id |-> "t2", scanner_role |-> "washer"])
    /\ DOMAIN garments = {"t1"}
    /\ garments["t1"].total_wear_count = 1
    /\ store = Some(SaveData(scanners, garments))

\* C16: a scan from a scanner id that does not resolve to a role (it is not
\* in the scanner directory, or it is stored with a role outside the five)
\* changes nothing, persists nothing, and fires neither a change
\* notification nor an unknown-tag signal, also when the tag is unknown too.
C16_UnresolvedScannerIsSilent ==
    [][\A ev \in DirectoryScanEvents :
          (/\ ~Resolves(ev.scanner_id)
           /\ DirectoryScanStep(ev))
          => Silent]_vars

\* No garment is registered and the directory holds only the reader with the
\* role "garage": every scan event is one of an unknown tag from a reader
\* without a role, and the last one did nothing.
C16_Witness ==
    /\ last = Call("scan", Missing, "None", 0, 0, None)
    /\ DOMAIN garments = {}
    /\ DOMAIN scanners = {"nfc_old"}
    /\ scanners["nfc_old"].role \notin ScannerRole

\* The call of the step did what it was asked to: a registration, a removal
\* of something registered, an accepted scan, a force-state or a log-wash of
\* a registered tag.
SuccessfulMutation ==
    \/ last'.op \in {"register_garment", "register_scanner", "remove_scanner"}
    \/ /\ last'.op \in {"remove_garment", "force_state", "log_wash_cycle"}
       /\ last'.result = "True"
    \/ /\ last'.op = "scan"
       /\ last'.tag # Missing

---------------------------------------------------------------------------
(* SpecPersist: the coordinator as in Spec, with a Store whose async_save  *)
(* may raise a bounded number of times.                                    *)

\* Store.async_save takes the document (TRUE) or raises (FALSE)
StoreOutcomes == BOOLEAN

\* (name, category, color, needs_washing_threshold) of the one registration
PersistGarmentInput ==
    [name |-> "Shirt", category |-> "shirt", color |-> "white",
     needs_washing_threshold |-> DEFAULT_NEEDS_WASHING_THRESHOLD]

\* The exploration stops failing saves at the bound.
CountFailure(save_ok) ==
    /\ save_ok \/ last'.saves = 0 \/ failed < MaxSaveFailures
    /\ failed' = IF save_ok \/ last'.saves = 0 THEN failed ELSE failed + 1
    /\ UNCHANGED <<scans, tasks, entries, flows,
                     event_entities>>

InitPersist ==
    /\ store = StoredDocument
    /\ scanners = async_load_scanners(store)
    /\ garments = async_load_garments(store)
    /\ last = Call("async_load", Missing, "None", 0, 1, None)
    /\ scans = <<>>
    /\ failed = 0
    /\ tasks = <<>>
    /\ entries = <<"Wardrobe Manager">>
    /\ flows = 0
    /\ event_entities = NoEntities

\* Scans of the registered tag at the five readers.
PersistScanEvents ==
    { [tag_id |-> t, scanner_id |-> s] :
        t \in TagIds, s \in DOMAIN LoadedScanners }

\* The states the force_state service is called with.
PersistForceStates == {"in_laundry_bin", "washing"}

PersistScan ==
    \E ev \in PersistScanEvents, save_ok \in StoreOutcomes :
        /\ handle_tag_scanned(ev.tag_id, ev.scanner_id, Time1, save_ok)
        /\ Bounded(garments')
        /\ CountFailure(save_ok)

PersistRegisterGarment ==
    \E tag_id \in TagIds, save_ok \in StoreOutcomes :
        /\ async_register_garment(tag_id, PersistGarmentInput.name,
                                  PersistGarmentInput.category,
                                  PersistGarmentInput.color,
                                  PersistGarmentInput.needs_washing_threshold,
                                  save_ok)
        /\ CountFailure(save_ok)

PersistRemoveGarment ==
    \E tag_id \in TagIds, save_ok \in StoreOutcomes :
        /\ async_remove_garment(tag_id, save_ok)
        /\ CountFailure(save_ok)

PersistForceState ==
    \E tag_id \in TagIds, state \in PersistForceStates,
       save_ok \in StoreOutcomes :
        /\ async_force_state(tag_id, state, save_ok)
        /\ CountFailure(save_ok)

PersistLogWashCycle ==
    \E tag_id \in TagIds, method \in Methods, save_ok \in StoreOutcomes :
        /\ async_log_wash_cycle(tag_id, method, Time1, save_ok)
        /\ Bounded(garments')
        /\ CountFailure(save_ok)

NextPersist ==
    \/ PersistScan
    \/ PersistRegisterGarment
    \/ PersistRemoveGarment
    \/ PersistForceState
    \/ PersistLogWashCycle

SpecPersist == InitPersist /\ [][NextPersist]_vars

\* The call of the step made one persistence attempt, which failed and was
\* not repeated: the stored document is the old one, and the call still
\* sent its change notification and returned its normal result.
FailedSave(op, tag, result) ==
    /\ store' = store
    /\ last' = Call(op, tag, result, 1, 1, None)

\* C19: when the persistence attempt of a successful mutation (accepted
\* scan, garment registration, garment removal, force-state, log-wash)
\* fails, the mutation is kept in memory, the call does not raise and
\* returns its normal result, the change notification is still sent, and
\* the write is attempted once only.
C19_FailedSaveKeepsMutation ==
    [][/\ \A ev \in PersistScanEvents :
             (/\ TableAccepts(ev)
              /\ handle_tag_scanned(ev.tag_id, ev.scanner_id, Time1, FALSE))
             => /\ garments'[ev.tag_id].garment_state =
                       Target(scanners[ev.scanner_id].role,
                              garments[ev.tag_id].garment_state)
                /\ garments'[ev.tag_id].last_scanned_at = Some(ev.scanner_id)
                /\ FailedSave("scan", ev.tag_id, "None")
       /\ \A t \in TagIds :
             /\ async_register_garment(
                    t, PersistGarmentInput.name, PersistGarmentInput.category,
                    PersistGarmentInput.color,
                    PersistGarmentInput.needs_washing_threshold, FALSE)
                => /\ t \in DOMAIN garments'
                   /\ garments'[t].name = PersistGarmentInput.name
                   /\ garments'[t].garment_state = "clean"
                   /\ garments'[t].total_wear_count = 0
                   /\ FailedSave("register_garment", t, "garment")
             /\ (t \in DOMAIN garments /\ async_remove_garment(t, FALSE))
                => /\ t \notin DOMAIN garments'
                   /\ FailedSave("remove_garment", t, "True")
             /\ \A state \in PersistForceStates :
                   (t \in DOMAIN garments /\ async_force_state(t, state, FALSE))
                   => /\ garments'[t].garment_state = state
                      /\ FailedSave("force_state", t, "True")
             /\ \A method \in Methods :
                   (/\ t \in DOMAIN garments
                    /\ async_log_wash_cycle(t, method, Time1, FALSE))
                   => /\ garments'[t].garment_state = "washing"
                      /\ Len(garments'[t].wash_cycles) =
                             Len(garments[t].wash_cycles) + 1
                      /\ FailedSave("log_wash_cycle", t, "True")]_vars

\* The save of an accepted closet scan has failed: the garment is worn in
\* memory, and the stored document still has it as it was before.
C19_Witness ==
    /\ failed = 1
    /\ last = Call("scan", "t1", "None", 1, 1, None)
    /\ "t1" \in DOMAIN garments
    /\ garments["t1"].garment_state = "worn"
    /\ garments["t1"].last_scanned_at = Some("nfc_closet")
    /\ store # None
    /\ "t1" \in DOMAIN store[1].garments
    /\ store[1].garments["t1"].garment_state = "clean"
    /\ store[1].garments["t1"].total_wear_count = 0
---------------------------------------------------------------------------
(* SpecAsync: the handlers as the coroutines they are.  A handler runs     *)
(* without interruption up to `await self._async_save()`; there it has     *)
(* changed memory and built the document, and it is suspended until the    *)
(* Store has dealt with the write.  The event loop runs other handlers in  *)
(* the meantime: the Store writes the waiting documents oldest first, and  *)
(* a handler whose save is over is resumed, sends the change notification  *)
(* and returns.                                                            *)

\* Faulty variant: the document is built from the directories as they were
\* before the handler changed them.
Suspend_builds_document_first(op, tag, result) ==
    /\ tasks' = Append(tasks, [op |-> op, tag |-> tag, result |-> result,
                               data |-> SaveData(scanners, garments),
                               saves |-> 0])
    /\ last' = Call(op, tag, "await", 0, 0, None)
    /\ UNCHANGED store

\* The handler has reached its await: the document built from the
\* directories as they are now (_async_save, the data dict) waits for the
\* Store, and the handler waits with it.
Suspend(op, tag, result) ==
    /\ tasks' = Append(tasks, [op |-> op, tag |-> tag, result |-> result,
                               data |-> SaveData(scanners', garments'),
                               saves |-> 0])
    /\ last' = Call(op, tag, "await", 0, 0, None)
    /\ UNCHANGED store

\* handle_tag_scanned up to its await, or to its return when it ends before
handle_tag_scanned_until_await(tag_id, scanner_id, now) ==
    IF tag_id = Missing \/ scanner_id = Missing
    THEN /\ UNCHANGED <<garments, scanners, store, tasks>>
         /\ last' = Call("scan", Missing, "None", 0, 0, None)
    ELSE LET scanner_role == get_scanner_role(scanner_id) IN
         IF scanner_role = None
         THEN /\ UNCHANGED <<garments, scanners, store, tasks>>
              /\ last' = Call("scan", Missing, "None", 0, 0, None)
         ELSE IF tag_id \notin DOMAIN garments
         THEN /\ UNCHANGED <<garments, scanners, store, tasks>>
              /\ last' = Call("scan", Missing, "None", 0, 0,
                              Some([tag_id |-> tag_id,
                                    scanner_role |-> scanner_role[1]]))
         ELSE LET result == transition(garments[tag_id], scanner_role[1],
                                       scanner_id, now)
              IN  IF result.returned = None
                  THEN /\ garments' = [garments EXCEPT ![tag_id] = result.garment]
                       /\ UNCHANGED <<scanners, store, tasks>>
                       /\ last' = Call("scan", Missing, "None", 0, 0, None)
                  ELSE /\ garments' = [garments EXCEPT ![tag_id] = result.garment]
                       /\ UNCHANGED scanners
                       /\ Suspend("scan", tag_id, "None")

\* async_force_state up to its await
async_force_state_until_await(tag_id, state) ==
    IF tag_id \notin DOMAIN garments
    THEN /\ UNCHANGED <<garments, scanners, store, tasks>>
         /\ last' = Call("force_state", Missing, "False", 0, 0, None)
    ELSE /\ garments' = [garments EXCEPT ![tag_id].garment_state = state]
         /\ UNCHANGED scanners
         /\ Suspend("force_state", tag_id, "True")

\* Faulty variant: the wash-cycle record is left to be appended after the
\* save has returned.
async_log_wash_cycle_appends_after_await(tag_id, method, now) ==
    IF tag_id \notin DOMAIN garments
    THEN /\ UNCHANGED <<garments, scanners, store, tasks>>
         /\ last' = Call("log_wash_cycle", Missing, "False", 0, 0, None)
    ELSE /\ garments' =
              [garments EXCEPT ![tag_id] =
                  [@ EXCEPT !.garment_state = "washing",
                            !.wear_count_since_wash = 0,
                            !.last_washed = Some(now)]]
         /\ UNCHANGED scanners
         /\ Suspend("log_wash_cycle", tag_id, "True")

\* async_log_wash_cycle up to its await
async_log_wash_cycle_until_await(tag_id, method, now) ==
    IF tag_id \notin DOMAIN garments
    THEN /\ UNCHANGED <<garments, scanners, store, tasks>>
         /\ last' = Call("log_wash_cycle", Missing, "False", 0, 0, None)
    ELSE /\ garments' =
              [garments EXCEPT ![tag_id] =
                  [@ EXCEPT !.garment_state = "washing",
                            !.wear_count_since_wash = 0,
                            !.last_washed = Some(now),
                            !.wash_cycles = Append(@, WashCycle(now, method))]]
         /\ UNCHANGED scanners
         /\ Suspend("log_wash_cycle", tag_id, "True")

\* async_register_garment up to its await
async_register_garment_until_await(tag_id, name, category, color, needs_washing_threshold) ==
    LET garment == GarmentData(tag_id, name, category, color,
                               needs_washing_threshold)
    IN  /\ garments' = DictSet(garments, tag_id, garment)
        /\ UNCHANGED scanners
        /\ Suspend("register_garment", tag_id, "garment")

\* Faulty variant: a removal announces the change and returns without
\* saving.
async_remove_garment_until_await_unsaved(tag_id) ==
    IF tag_id \notin DOMAIN garments
    THEN /\ UNCHANGED <<garments, scanners, store, tasks>>
         /\ last' = Call("remove_garment", Missing, "False", 0, 0, None)
    ELSE /\ garments' = DictDel(garments, tag_id)
         /\ UNCHANGED <<scanners, store, tasks>>
         /\ last' = Call("remove_garment", tag_id, "True", 0, 1, None)

\* async_remove_garment up to its await
async_remove_garment_until_await(tag_id) ==
    IF tag_id \notin DOMAIN garments
    THEN /\ UNCHANGED <<garments, scanners, store, tasks>>
         /\ last' = Call("remove_garment", Missing, "False", 0, 0, None)
    ELSE /\ garments' = DictDel(garments, tag_id)
         /\ UNCHANGED scanners
         /\ Suspend("remove_garment", tag_id, "True")

\* The suspended handlers whose document the Store has not yet dealt with.
Unsaved == { i \in DOMAIN tasks : tasks[i].saves = 0 }

\* self._store.async_save(data) of the oldest waiting document: the Store
\* takes it, or raises and keeps the old one (the exception is logged and
\* swallowed); either way the handler's save is over.
store_async_save(save_ok) ==
    /\ Unsaved # {}
    /\ LET i == CHOOSE j \in Unsaved : \A k \in Unsaved : j <= k
       IN  /\ store' = IF save_ok THEN Some(tasks[i].data) ELSE store
           /\ tasks' = [tasks EXCEPT ![i].saves = @ + 1]
           /\ last' = Call("async_save", tasks[i].tag,
                           IF save_ok THEN "None" ELSE "raise", 1, 0, None)
    /\ UNCHANGED <<garments, scanners>>

\* The oldest suspended handler from its await on, once its save is over:
\* async_set_updated_data and the return.
resume_after_save ==
    /\ tasks # <<>>
    /\ Head(tasks).saves > 0
    /\ last' = Call(Head(tasks).op, Head(tasks).tag, Head(tasks).result,
                    Head(tasks).saves, 1, None)
    /\ tasks' = Tail(tasks)
    /\ UNCHANGED <<garments, scanners, store>>

\* The document a previous run left in the Store: the readers and one
\* garment as its registration made it.
StoredWardrobe ==
    Some([scanners |-> LoadedScanners,
          garments |-> [t \in TagIds |->
                           to_dict(GarmentData(t, "Shirt", "shirt", "white",
                                               DEFAULT_NEEDS_WASHING_THRESHOLD))]])

InitAsync ==
    /\ store = StoredWardrobe
    /\ scanners = async_load_scanners(store)
    /\ garments = async_load_garments(store)
    /\ last = Call("async_load", Missing, "None", 0, 1, None)
    /\ scans = <<>>
    /\ failed = 0
    /\ tasks = <<>>
    /\ entries = <<"Wardrobe Manager">>
    /\ flows = 0
    /\ event_entities = NoEntities

\* Scans of the registered tag at the closet's and at the washer's reader.
AsyncScanEvents ==
    { [tag_id |-> t, scanner_id |-> s] :
        t \in TagIds, s \in {"nfc_closet", "nfc_washer"} }

\* The state the force_state service is called with.
AsyncForceStates == {"in_laundry_bin"}

AsyncScan ==
    \E ev \in AsyncScanEvents :
        /\ handle_tag_scanned_until_await(ev.tag_id, ev.scanner_id, Time1)
        /\ Bounded(garments')
        /\ Len(tasks') <= MaxTasks
        /\ UNCHANGED <<scans, failed, entries, flows,
                     event_entities>>

AsyncForceState ==
    \E tag_id \in TagIds, state \in AsyncForceStates :
        /\ async_force_state_until_await(tag_id, state)
        /\ Len(tasks') <= MaxTasks
        /\ UNCHANGED <<scans, failed, entries, flows,
                     event_entities>>

AsyncLogWashCycle ==
    \E tag_id \in TagIds, method \in Methods :
        /\ async_log_wash_cycle_until_await(tag_id, method, Time1)
        /\ Bounded(garments')
        /\ Len(tasks') <= MaxTasks
        /\ UNCHANGED <<scans, failed, entries, flows,
                     event_entities>>

AsyncStore ==
    \E save_ok \in StoreOutcomes :
        /\ store_async_save(save_ok)
        /\ save_ok \/ failed < MaxSaveFailures
        /\ failed' = IF save_ok THEN failed ELSE failed + 1
        /\ UNCHANGED <<scans, entries, flows,
                     event_entities>>

AsyncResume ==
    /\ resume_after_save
    /\ UNCHANGED <<scans, failed, entries, flows,
                     event_entities>>

NextAsync ==
    \/ AsyncScan
    \/ AsyncForceState
    \/ AsyncLogWashCycle
    \/ AsyncStore
    \/ AsyncResume

SpecAsync == InitAsync /\ [][NextAsync]_vars

\* C20: operations are admitted one at a time: no scan event, force-state
\* call or log-wash call starts while an earlier operation has changed
\* memory and has not yet finished its persistence and notification.  So
\* at no time have two operations changed memory and not yet returned.
C20_OperationsAdmittedOneAtATime == Len(tasks) <= 1

\* What does hold: every handler that has changed memory and not yet
\* returned is suspended at its await, with memory holding the changes of
\* all of them; the document of the youngest is memory as it is now.
C20_SuspendedOnlyAtAwait ==
    tasks # <<>> => tasks[Len(tasks)].data = SaveData(scanners, garments)

\* The garment g as an accepted scan with target state target, made at
\* reader scanner_id at time now, leaves it, by the specification's steps.
AfterAcceptedScan(g, target, scanner_id, now) ==
    [g EXCEPT
        !.garment_state = target,
        !.last_scanned_at = Some(scanner_id),
        !.wear_count_since_wash =
            IF target = "worn" THEN @ + 1
            ELSE IF target = "washing" THEN 0 ELSE @,
        !.total_wear_count = IF target = "worn" THEN @ + 1 ELSE @,
        !.last_worn = IF target = "worn" THEN Some(now) ELSE @,
        !.last_washed = IF target = "washing" THEN Some(now) ELSE @,
        !.wash_cycles =
            IF target = "washing"
            THEN @ \o <<[timestamp |-> now, method |-> "machine"]>>
            ELSE @]

\* C21: an operation has made its whole in-memory change when it first
\* suspends to await persistence, and makes none after: whatever runs while
\* a write is pending, or after it has failed, finds the record fully
\* updated.  An accepted scan, a force-state and a log-wash are suspended
\* with every field of the garment as the completed operation leaves it,
\* and the resumed handler changes neither directory.
C21_MutationCompleteBeforeAwait ==
    [][/\ \A ev \in AsyncScanEvents :
             (/\ TableAccepts(ev)
              /\ handle_tag_scanned_until_await(ev.tag_id, ev.scanner_id, Time1))
             => /\ Len(tasks') = Len(tasks) + 1
                /\ garments'[ev.tag_id] =
                       AfterAcceptedScan(
                           garments[ev.tag_id],
                           Target(scanners[ev.scanner_id].role,
                                  garments[ev.tag_id].garment_state),
                           ev.scanner_id, Time1)
       /\ \A t \in TagIds :
             /\ \A state \in AsyncForceStates :
                   (/\ t \in DOMAIN garments
                    /\ async_force_state_until_await(t, state))
                   => /\ Len(tasks') = Len(tasks) + 1
                      /\ garments'[t] =
                             [garments[t] EXCEPT !.garment_state = state]
             /\ \A method \in Methods :
                   (/\ t \in DOMAIN garments
                    /\ async_log_wash_cycle_until_await(t, method, Time1))
                   => /\ Len(tasks') = Len(tasks) + 1
                      /\ garments'[t] =
                             [garments[t] EXCEPT
                                 !.garment_state = "washing",
                                 !.wear_count_since_wash = 0,
                                 !.last_washed = Some(Time1),
                                 !.wash_cycles =
                                     @ \o <<[timestamp |-> Time1,
                                             method |-> method]>>]
       /\ Len(tasks') < Len(tasks) => UNCHANGED <<garments, scanners>>]_vars

\* A save has failed, and a wash logged by hand is waiting for its write:
\* memory has the wash, the stored document has none.
C21_Witness ==
    /\ failed = 1
    /\ Len(tasks) = 1
    /\ tasks[1].op = "log_wash_cycle"
    /\ garments["t1"].garment_state = "washing"
    /\ Len(garments["t1"].wash_cycles) = 1
    /\ garments["t1"].last_washed = Some(Time1)
    /\ store[1].garments["t1"].wash_cycles = <<>>
---------------------------------------------------------------------------
(* SpecCodec: garment records built with chosen field values, encoded    *)
(* with to_dict and decoded again with from_dict under the same tag_id.    *)

CodecCycles == {WashCycle(Time1, "hand"), WashCycle(Time2, "machine_30")}

\* every ordered wash history of up to MaxWashes cycles
CodecHistories ==
    UNION { [1..n -> CodecCycles] : n \in 0..MaxWashes }

\* _make_garment(state, **kwargs), with wash cycles appended
CodecGarments ==
    { [GarmentData("t1", in.name, in.category, in.color,
                   in.needs_washing_threshold)
        EXCEPT !.garment_state = st,
               !.wear_count_since_wash = w,
               !.total_wear_count = n,
               !.last_worn = lw,
               !.last_washed = lwa,
               !.last_scanned_at = sc,
               !.wash_cycles = wc] :
        in \in GarmentInputs, st \in GarmentState,
        w \in 0..MaxWear, n \in 0..MaxWear,
        lw \in {None, Some(Time1)}, lwa \in {None, Some(Time2)},
        sc \in {None, Some("nfc_closet")},
        wc \in CodecHistories }

InitCodec ==
    /\ garments \in { [t \in {"t1"} |-> g] : g \in CodecGarments }
    /\ scanners = [x \in {} |-> None]
    /\ store = None
    /\ last = Call("make_garment", "t1", "garment", 0, 0, None)
    /\ scans = <<>>
    /\ failed = 0
    /\ tasks = <<>>
    /\ entries = <<>>
    /\ flows = 0
    /\ event_entities = NoEntities

\* data = g.to_dict()
CodecEncode ==
    /\ last.op = "make_garment"
    /\ store' = Some(SaveData(scanners, garments))
    /\ last' = Call("to_dict", "t1", "dict", 0, 0, None)
    /\ UNCHANGED <<garments, scanners, scans, failed, tasks, entries, flows,
                     event_entities>>

\* restored = GarmentData.from_dict(tag_id, data)
CodecDecode ==
    /\ last.op = "to_dict"
    /\ garments' = async_load_garments(store)
    /\ last' = Call("from_dict", "t1", "garment", 0, 0, None)
    /\ UNCHANGED <<scanners, store, scans, failed, tasks, entries, flows,
                     event_entities>>

NextCodec == CodecEncode \/ CodecDecode

SpecCodec == InitCodec /\ [][NextCodec]_vars

\* C22: encoding a garment record with to_dict and decoding the result
\* with from_dict under the same tag_id reproduces every field of the
\* record exactly: state, counters, threshold, the three nullable fields
\* and the full ordered wash_cycles list.
C22_RoundTripReproducesRecord ==
    [][ last'.op = "from_dict" =>
          /\ DOMAIN garments' = DOMAIN garments
          /\ \A t \in DOMAIN garments :
                /\ DOMAIN garments'[t] = DOMAIN garments[t]
                /\ \A f \in DOMAIN garments[t] :
                      garments'[t][f] = garments[t][f] ]_vars

\* a worn garment with every nullable field set and two different wash
\* cycles has been encoded and decoded
C22_Witness ==
    /\ last.op = "from_dict"
    /\ garments["t1"].garment_state = "worn"
    /\ garments["t1"].wear_count_since_wash = 1
    /\ garments["t1"].total_wear_count = 2
    /\ garments["t1"].needs_washing_threshold = 1
    /\ garments["t1"].last_worn # None
    /\ garments["t1"].last_washed # None
    /\ garments["t1"].last_scanned_at # None
    /\ garments["t1"].wash_cycles =
          <<WashCycle(Time2, "machine_30"), WashCycle(Time1, "hand")>>

---------------------------------------------------------------------------
(* SpecStored: the integration starts on a stored document whose garment   *)
(* record holds name and category and any subset of the other fields.      *)

OptionalFields ==
    {"color", "garment_state", "wear_count_since_wash", "total_wear_count",
     "needs_washing_threshold", "last_worn", "last_washed",
     "last_scanned_at", "wash_cycles"}

\* full stored records, each field with a value that is not its default
\* or with the value null
StoredRecords ==
    { to_dict([GarmentData("t1", "Shirt", "shirt", "white", 5)
                  EXCEPT !.garment_state = "worn",
                         !.wear_count_since_wash = 1,
                         !.total_wear_count = 2,
                         !.last_worn = Some(Time1),
                         !.last_washed = Some(Time2),
                         !.last_scanned_at = Some("nfc_closet"),
                         !.wash_cycles = <<WashCycle(Time2, "hand")>>]),
      to_dict([GarmentData("t1", "Jeans", "jeans", "blue", 1)
                  EXCEPT !.garment_state = "drying",
                         !.total_wear_count = 1,
                         !.last_washed = Some(Time1),
                         !.wash_cycles = <<WashCycle(Time1, "hand")>>]) }

\* the record with only the chosen keys
Restrict(data, keys) == [k \in keys |-> data[k]]

StoredDocuments ==
    { Some([scanners |-> LoadedScanners,
            garments |-> [t \in {"t1"} |->
                Restrict(d, {"name", "category"} \cup present)]]) :
        d \in StoredRecords, present \in SUBSET OptionalFields }

\* WardrobeDataUpdateCoordinator.__init__
InitStored ==
    /\ store \in StoredDocuments
    /\ scanners = [x \in {} |-> None]
    /\ garments = [x \in {} |-> None]
    /\ last = Call("__init__", Missing, "None", 0, 0, None)
    /\ scans = <<>>
    /\ failed = 0
    /\ tasks = <<>>
    /\ entries = <<"Wardrobe Manager">>
    /\ flows = 0
    /\ event_entities = NoEntities

\* async_load
StoredLoad ==
    /\ last.op = "__init__"
    /\ scanners' = async_load_scanners(store)
    /\ garments' = async_load_garments(store)
    /\ last' = Call("async_load", Missing, "None", 0, 1, None)
    /\ UNCHANGED <<store, scans, failed, tasks, entries, flows,
                     event_entities>>

NextStored == StoredLoad

SpecStored == InitStored /\ [][NextStored]_vars

\* the value the specification gives a field that the stored record lacks
FieldDefault(f) ==
    CASE f = "color" -> ""
      [] f = "garment_state" -> "clean"
      [] f = "wear_count_since_wash" -> 0
      [] f = "total_wear_count" -> 0
      [] f = "needs_washing_threshold" -> 3
      [] f = "wash_cycles" -> <<>>
      [] OTHER -> None

\* C23: decoding a stored record takes tag_id from its key, keeps name and
\* category and every other field the record holds, and gives each field
\* the record lacks its default: state clean, counters 0, color "",
\* threshold 3, no wash cycles, the three nullable fields unset.
C23_MissingFieldsTakeDefaults ==
    [][ last'.op = "async_load" =>
          /\ DOMAIN garments' = DOMAIN store[1].garments
          /\ \A t \in DOMAIN store[1].garments :
                LET data == store[1].garments[t]
                    g == garments'[t]
                IN  /\ g.tag_id = t
                    /\ g.name = data["name"]
                    /\ g.category = data["category"]
                    /\ \A f \in OptionalFields :
                          g[f] = IF f \in DOMAIN data
                                 THEN data[f] ELSE FieldDefault(f) ]_vars

\* a record stored with name and category only has been decoded
C23_Witness ==
    /\ last.op = "async_load"
    /\ DOMAIN store[1].garments["t1"] = {"name", "category"}
    /\ garments["t1"].name = "Jeans"
    /\ garments["t1"].garment_state = "clean"
    /\ garments["t1"].wear_count_since_wash = 0
    /\ garments["t1"].total_wear_count = 0
    /\ garments["t1"].color = ""
    /\ garments["t1"].wash_cycles = <<>>
    /\ garments["t1"].last_worn = None
    /\ garments["t1"].last_washed = None
    /\ garments["t1"].last_scanned_at = None

---------------------------------------------------------------------------
(* SpecSetup: Home Assistant before the integration is set up.  User       *)
(* config flows are started and submitted; once the entry exists the       *)
(* coordinator is loaded and takes scans, the garment services and the     *)
(* options flow's add-garment step.                                        *)

\* Faulty variant: a submitted form creates an entry without looking at the
\* current entries.
async_step_user_unguarded(user_input) ==
    IF user_input # None
    THEN /\ entries' = Append(entries, "Wardrobe Manager")
         /\ last' = Call("async_step_user", Missing, "create_entry",
                         0, 0, None)
    ELSE IF entries # <<>>
    THEN /\ last' = Call("async_step_user", Missing,
                         "single_instance_allowed", 0, 0, None)
         /\ UNCHANGED entries
    ELSE /\ last' = Call("async_step_user", Missing, "form", 0, 0, None)
         /\ UNCHANGED entries

\* WardrobeManagerConfigFlow.async_step_user; entries is what
\* self._async_current_entries() returns.
async_step_user(user_input) ==
    IF entries # <<>>
    THEN /\ last' = Call("async_step_user", Missing,
                         "single_instance_allowed", 0, 0, None)
         /\ UNCHANGED entries
    ELSE IF user_input # None
    THEN /\ entries' = Append(entries, "Wardrobe Manager")
         /\ last' = Call("async_step_user", Missing, "create_entry",
                         0, 0, None)
    ELSE /\ last' = Call("async_step_user", Missing, "form", 0, 0, None)
         /\ UNCHANGED entries

\* Faulty variant: the form is not checked against the directory.
async_step_add_garment_overwrites(tag_id, name, category, color, needs_washing_threshold, save_ok) ==
    async_register_garment(tag_id, name, category, color,
                           needs_washing_threshold, save_ok)

\* WardrobeManagerOptionsFlow.async_step_add_garment with a submitted form
async_step_add_garment(tag_id, name, category, color, needs_washing_threshold, save_ok) ==
    IF tag_id \in DOMAIN garments
    THEN /\ UNCHANGED <<garments, scanners, store>>
         /\ last' = Call("add_garment", tag_id, "tag_already_registered",
                         0, 0, None)
    ELSE async_register_garment(tag_id, name, category, color,
                                needs_washing_threshold, save_ok)

\* the add-garment form: the threshold field is validated as int only
AddGarmentInputs ==
    { [name |-> "Socks", category |-> "socks", color |-> "",
       needs_washing_threshold |-> n] :
        n \in {-1, 0, DEFAULT_NEEDS_WASHING_THRESHOLD} }

InitSetup ==
    /\ store \in {None, StoredDocument}
    /\ scanners = [x \in {} |-> None]
    /\ garments = [x \in {} |-> None]
    /\ last = Call("start", Missing, "None", 0, 0, None)
    /\ scans = <<>>
    /\ failed = 0
    /\ tasks = <<>>
    /\ entries = <<>>
    /\ flows = 0
    /\ event_entities = NoEntities

\* hass.config_entries.flow.async_init(DOMAIN, source user): the flow stays
\* in progress when it shows its form
UserFlowInit ==
    /\ flows < MaxFlows
    /\ async_step_user(None)
    /\ flows' = IF last'.result = "form" THEN flows + 1 ELSE flows
    /\ UNCHANGED <<garments, scanners, store, scans, failed, tasks,
                 event_entities>>

\* hass.config_entries.flow.async_configure(flow_id, user_input={}): the
\* flow ends, and a created entry is set up (async_setup_entry)
UserFlowConfigure ==
    /\ flows > 0
    /\ async_step_user(Some("{}"))
    /\ flows' = flows - 1
    /\ IF last'.result = "create_entry"
       THEN /\ scanners' = async_load_scanners(store)
            /\ garments' = async_load_garments(store)
       ELSE UNCHANGED <<garments, scanners>>
    /\ UNCHANGED <<store, scans, failed, tasks, event_entities>>

SetupScan == entries # <<>> /\ Scan

SetupRegisterGarment == entries # <<>> /\ RegisterGarment

SetupRemoveGarment == entries # <<>> /\ RemoveGarment

SetupAddGarment ==
    \E tag_id \in TagIds, in \in AddGarmentInputs, save_ok \in SaveOutcomes :
        /\ entries # <<>>
        /\ async_step_add_garment(tag_id, in.name, in.category, in.color,
                                  in.needs_washing_threshold, save_ok)
        /\ UNCHANGED <<scans, failed, tasks, entries, flows,
                     event_entities>>

NextSetup ==
    \/ UserFlowInit
    \/ UserFlowConfigure
    \/ SetupScan
    \/ SetupRegisterGarment
    \/ SetupRemoveGarment
    \/ SetupAddGarment

SpecSetup == InitSetup /\ [][NextSetup]_vars

\* C24: in every reachable state every garment record's
\* needs_washing_threshold is a positive integer, whether the garment was
\* created through the register_garment service or through the options
\* flow's add-garment step.
C24_ThresholdIsPositive ==
    \A t \in DOMAIN garments : garments[t].needs_washing_threshold > 0

\* C25: a user flow step shows the form (when started) or creates the
\* entry titled "Wardrobe Manager" (when submitted) if no entry exists,
\* aborts with single_instance_allowed and creates nothing if one exists,
\* and at most one config entry ever exists.
C25_SingleConfigEntry ==
    /\ [](Len(entries) <= 1)
    /\ [][ last'.op = "async_step_user" =>
             IF entries # <<>>
             THEN /\ last'.result = "single_instance_allowed"
                  /\ entries' = entries
             ELSE IF flows' < flows
             THEN /\ last'.result = "create_entry"
                  /\ entries' = <<"Wardrobe Manager">>
             ELSE /\ last'.result = "form"
                  /\ flows' = flows + 1
                  /\ entries' = entries ]_vars

\* two flows showed their form, the first one submitted created the entry
\* and the second one submitted was aborted
C25_Witness ==
    /\ entries = <<"Wardrobe Manager">>
    /\ flows = 0
    /\ event_entities = NoEntities
    /\ last.op = "async_step_user"
    /\ last.result = "single_instance_allowed"

---------------------------------------------------------------------------
(* SpecSerial: the coroutines of SpecAsync with a caller that serializes:  *)
(* an event or a service call is handed to the coordinator only when no    *)
(* handler is suspended.  The Store may fail a save.                       *)

SerialScan ==
    \E ev \in PersistScanEvents :
        /\ tasks = <<>>
        /\ handle_tag_scanned_until_await(ev.tag_id, ev.scanner_id, Time1)
        /\ Bounded(garments')
        /\ UNCHANGED <<scans, failed, entries, flows,
                     event_entities>>

SerialRegisterGarment ==
    \E tag_id \in TagIds :
        /\ tasks = <<>>
        /\ async_register_garment_until_await(tag_id, "Jeans", "jeans", "", 1)
        /\ UNCHANGED <<scans, failed, entries, flows,
                     event_entities>>

SerialRemoveGarment ==
    \E tag_id \in TagIds :
        /\ tasks = <<>>
        /\ async_remove_garment_until_await(tag_id)
        /\ UNCHANGED <<scans, failed, entries, flows,
                     event_entities>>

SerialForceState ==
    \E tag_id \in TagIds, state \in PersistForceStates :
        /\ tasks = <<>>
        /\ async_force_state_until_await(tag_id, state)
        /\ UNCHANGED <<scans, failed, entries, flows,
                     event_entities>>

SerialLogWashCycle ==
    \E tag_id \in TagIds, method \in Methods :
        /\ tasks = <<>>
        /\ async_log_wash_cycle_until_await(tag_id, method, Time1)
        /\ Bounded(garments')
        /\ UNCHANGED <<scans, failed, entries, flows,
                     event_entities>>

NextSerial ==
    \/ SerialScan
    \/ SerialRegisterGarment
    \/ SerialRemoveGarment
    \/ SerialForceState
    \/ SerialLogWashCycle
    \/ AsyncStore
    \/ AsyncResume

SpecSerial == InitAsync /\ [][NextSerial]_vars

\* The step has changed memory and left the handler of op on tag suspended
\* before its save: the document to write is memory as it is now, nothing
\* has been written and nothing announced.
Begins(op, tag) ==
    /\ Len(tasks') = Len(tasks) + 1
    /\ tasks'[Len(tasks')].op = op
    /\ tasks'[Len(tasks')].tag = tag
    /\ tasks'[Len(tasks')].saves = 0
    /\ tasks'[Len(tasks')].data = SaveData(scanners', garments')
    /\ store' = store
    /\ last'.saves = 0
    /\ last'.notified = 0

\* C26: every accepted scan, garment registration, removal of an existing
\* garment, force-state on a known tag and log-wash on a known tag first
\* changes memory, then makes exactly one persistence attempt (of memory as
\* changed), then sends exactly one change notification.
C26_MutateThenSaveThenNotify ==
    [][/\ \A ev \in PersistScanEvents :
             (/\ last'.op = "scan"
              /\ TableAccepts(ev)
              /\ handle_tag_scanned_until_await(ev.tag_id, ev.scanner_id,
                                                Time1))
             => /\ Begins("scan", ev.tag_id)
                /\ garments'[ev.tag_id].garment_state =
                       Target(scanners[ev.scanner_id].role,
                              garments[ev.tag_id].garment_state)
       /\ \A t \in TagIds :
             /\ (/\ last'.op = "register_garment"
                 /\ async_register_garment_until_await(t, "Jeans", "jeans",
                                                       "", 1))
                => /\ Begins("register_garment", t)
                   /\ t \in DOMAIN garments'
                   /\ garments'[t].name = "Jeans"
             /\ (/\ last'.op = "remove_garment"
                 /\ t \in DOMAIN garments
                 /\ async_remove_garment_until_await(t))
                => /\ Begins("remove_garment", t)
                   /\ t \notin DOMAIN garments'
             /\ \A state \in PersistForceStates :
                   (/\ last'.op = "force_state"
                    /\ t \in DOMAIN garments
                    /\ async_force_state_until_await(t, state))
                   => /\ Begins("force_state", t)
                      /\ garments'[t].garment_state = state
             /\ \A method \in Methods :
                   (/\ last'.op = "log_wash_cycle"
                    /\ t \in DOMAIN garments
                    /\ async_log_wash_cycle_until_await(t, method, Time1))
                   => /\ Begins("log_wash_cycle", t)
                      /\ garments'[t].garment_state = "washing"
       /\ last'.op = "async_save" =>
             /\ \E i \in DOMAIN tasks :
                   /\ tasks[i].saves = 0
                   /\ tasks' = [tasks EXCEPT ![i].saves = 1]
             /\ last'.saves = 1
             /\ last'.notified = 0
             /\ UNCHANGED <<garments, scanners>>
       /\ Len(tasks') < Len(tasks) =>
             /\ Head(tasks).saves = 1
             /\ tasks' = Tail(tasks)
             /\ last'.op = Head(tasks).op
             /\ last'.saves = 1
             /\ last'.notified = 1
             /\ UNCHANGED <<garments, scanners, store>>]_vars

\* a removal has run to its end: the garment is gone from memory and from
\* the stored document, one save was made and one notification sent
C26_Witness ==
    /\ tasks = <<>>
    /\ last = Call("remove_garment", "t1", "True", 1, 1, None)
    /\ "t1" \notin DOMAIN garments
    /\ store # None
    /\ "t1" \notin DOMAIN store[1].garments

\* The step is a persistence attempt: the Store has dealt with the document
\* of a handler that was waiting for it.
SaveAttempt ==
    /\ Len(tasks') = Len(tasks)
    /\ \E i \in DOMAIN tasks : tasks[i].saves = 0 /\ tasks'[i].saves = 1

\* C27: with the operations run one at a time, each persistence attempt
\* that succeeds writes the full state of memory as it is then (scanner
\* directory and encoded garment directory, the changes of operations whose
\* own attempt failed included), a failed attempt leaves the document as it
\* was, nothing else writes the document, and memory does not change until
\* the operation has returned; so the document equals memory whenever the
\* most recent attempt succeeded.
C27_SuccessfulSaveWritesMemory ==
    /\ [](tasks = <<>> /\ failed = 0 =>
             store = Some([scanners |-> scanners,
                           garments |-> [t \in DOMAIN garments |->
                                            to_dict(garments[t])]]))
    /\ [][/\ (SaveAttempt /\ failed' = failed) =>
                store' = Some([scanners |-> scanners',
                               garments |-> [t \in DOMAIN garments' |->
                                                to_dict(garments'[t])]])
          /\ (SaveAttempt /\ failed' # failed) => store' = store
          /\ ~SaveAttempt => store' = store
          /\ tasks # <<>> => UNCHANGED <<garments, scanners>>]_vars

\* the save of the scan that put the garment on failed, the save of the
\* scan that put it back succeeded: the document counts the wear
C27_Witness ==
    /\ tasks = <<>>
    /\ failed = 1
    /\ "t1" \in DOMAIN garments
    /\ garments["t1"].garment_state = "clean"
    /\ garments["t1"].total_wear_count = 1
    /\ garments["t1"].name = "Shirt"
    /\ store # None
    /\ store[1].scanners = scanners
    /\ "t1" \in DOMAIN store[1].garments
    /\ store[1].garments["t1"].garment_state = "clean"
    /\ store[1].garments["t1"].total_wear_count = 1

---------------------------------------------------------------------------
(* SpecPair: the coordinator with two registered garments, each scanned at *)
(* every reader.                                                           *)

\* The document a previous run left in the Store: the readers and two
\* garments as their registrations made them.
StoredPair ==
    Some([scanners |-> LoadedScanners,
          garments |->
              [t \in {"t1", "t2"} |->
                  IF t = "t1"
                  THEN to_dict(GarmentData(t, "Shirt", "shirt", "white",
                                           DEFAULT_NEEDS_WASHING_THRESHOLD))
                  ELSE to_dict(GarmentData(t, "Jeans", "jeans", "", 1))]])

InitPair ==
    /\ store = StoredPair
    /\ scanners = async_load_scanners(store)
    /\ garments = async_load_garments(store)
    /\ last = Call("async_load", Missing, "None", 0, 1, None)
    /\ scans = <<>>
    /\ failed = 0
    /\ tasks = <<>>
    /\ entries = <<"Wardrobe Manager">>
    /\ flows = 0
    /\ event_entities = NoEntities

PairScanEvents ==
    { [tag_id |-> t, scanner_id |-> s] :
        t \in {"t1", "t2"}, s \in DOMAIN LoadedScanners \cup {"nfc_guest"} }

PairScan ==
    \E ev \in PairScanEvents, save_ok \in SaveOutcomes :
        /\ handle_tag_scanned(ev.tag_id, ev.scanner_id, Time1, save_ok)
        /\ Bounded(garments')
        /\ UNCHANGED <<scans, failed, tasks, entries, flows,
                     event_entities>>

NextPair == PairScan

SpecPair == InitPair /\ [][NextPair]_vars

\* the fields a registration sets and the engine leaves alone
RegisteredFields ==
    {"tag_id", "name", "category", "color", "needs_washing_threshold"}

\* C28: an accepted scan whose target is clean, in_laundry_bin, drying or
\* needs_ironing changes only garment_state and last_scanned_at of the
\* scanned garment (a worn garment returned to the closet keeps its
\* wear_count_since_wash); and no scan, accepted or rejected, changes the
\* scanned garment's tag_id, name, category, color or threshold, any field
\* of any other garment, the set of garments, or the scanner directory.
C28_ScanFrame ==
    [][\A ev \in PairScanEvents :
          (/\ last'.op = "scan"
           /\ handle_tag_scanned(ev.tag_id, ev.scanner_id, Time1, TRUE))
          => /\ scanners' = scanners
             /\ DOMAIN garments' = DOMAIN garments
             /\ \A t \in DOMAIN garments \ {ev.tag_id} :
                   garments'[t] = garments[t]
             /\ \A f \in RegisteredFields :
                   garments'[ev.tag_id][f] = garments[ev.tag_id][f]
             /\ (/\ TableAccepts(ev)
                 /\ Target(scanners[ev.scanner_id].role,
                           garments[ev.tag_id].garment_state)
                        \in {"clean", "in_laundry_bin", "drying",
                             "needs_ironing"})
                => garments'[ev.tag_id] =
                      [garments[ev.tag_id] EXCEPT
                          !.garment_state =
                              Target(scanners[ev.scanner_id].role,
                                     garments[ev.tag_id].garment_state),
                          !.last_scanned_at = Some(ev.scanner_id)]]_vars

\* the first garment, worn twice, has just been returned to the closet
\* with its two wears, while the second is worn
C28_Witness ==
    /\ last = Call("scan", "t1", "None", 1, 1, None)
    /\ garments["t1"].garment_state = "clean"
    /\ garments["t1"].last_scanned_at = Some("nfc_closet")
    /\ garments["t1"].wear_count_since_wash = 2
    /\ garments["t1"].total_wear_count = 2
    /\ garments["t1"].last_worn = Some(Time1)
    /\ garments["t2"].garment_state = "worn"
    /\ garments["t2"].name = "Jeans"

\* Garments of another identity in a given state: one as its registration
\* made it, one with a history.
OtherGarments(state) ==
    { [GarmentData("t2", "Coat", "coat", "", 1)
          EXCEPT !.garment_state = state],
      [GarmentData("t3", "Scarf", "scarf", "red", 2)
          EXCEPT !.garment_state = state,
                 !.wear_count_since_wash = MaxWear,
                 !.total_wear_count = MaxWear,
                 !.last_worn = Some(Time2),
                 !.last_washed = Some(Time2),
                 !.last_scanned_at = Some("nfc_washer"),
                 !.wash_cycles = <<WashCycle(Time2, "hand")>>] }

\* C29: whether a scan is accepted, and the state it leads to, depend only
\* on the scanner's role and the garment's current state: the call made on
\* the garment under test and the call with the same role made on any other
\* garment in the same state, with another scanner id and at another time,
\* are both accepted or both rejected, and when accepted lead to the same
\* state, whatever the counters, timestamps, wash history and identity.
C29_OutcomeDependsOnRoleAndState ==
    [][\A role \in ScannerRole, scanner_id \in EngineScannerIds, now \in Times :
          Transition("t1", role, scanner_id, now)
          => \A other \in OtherGarments(G.garment_state),
                other_id \in {"nfc_hall", "nfc_closet"} :
                LET r == transition(other, role, other_id, Time2)
                IN  /\ (r.returned = None) <=> (last'.result = "None")
                    /\ r.returned # None =>
                          r.garment.garment_state = G'.garment_state]_vars

\* a garment with wears, a wash and every timestamp set has been scanned
\* and accepted, as the garments compared with it are
C29_Witness ==
    /\ last.op = "transition"
    /\ last.result = "garment"
    /\ G.garment_state = "clean"
    /\ G.wear_count_since_wash = 1
    /\ G.total_wear_count = 2
    /\ G.last_worn # None
    /\ G.last_washed # None
    /\ G.wash_cycles # <<>>
    /\ G.last_scanned_at = Some("nfc_other")

\* C30: a scan is judged with the role its scanner has in the directory at
\* the moment of the scan.  A registration leaves the scanner with the role
\* it was given, whatever role it had; a removal leaves it out of the
\* directory; and a scan whose scanner is not in the directory now changes
\* nothing and signals nothing, while one whose scanner is there is accepted
\* or rejected, or signalled as an unknown tag, by the role held now.
C30_ScanUsesCurrentRole ==
    [][/\ \A in \in ScannerInputs :
             (/\ last'.op = "register_scanner"
              /\ async_register_scanner(in.scanner_id, in.role, in.name, TRUE))
             => /\ in.scanner_id \in DOMAIN scanners'
                /\ scanners'[in.scanner_id].role = in.role
       /\ \A id \in DOMAIN scanners :
             (/\ last'.op = "remove_scanner"
              /\ async_step_remove_scanner(id, TRUE))
             => id \notin DOMAIN scanners'
       /\ \A ev \in DirectoryScanEvents :
             DirectoryScanStep(ev) =>
                IF ~Resolves(ev.scanner_id)
                THEN Silent
                ELSE LET role == scanners[ev.scanner_id].role IN
                     IF ev.tag_id \notin DOMAIN garments
                     THEN /\ last'.signal =
                                Some([tag_id |-> ev.tag_id,
                                      scanner_role |-> role])
                          /\ UNCHANGED <<garments, scanners>>
                     ELSE IF InTable(role, garments[ev.tag_id].garment_state)
                     THEN /\ garments'[ev.tag_id].garment_state =
                                Target(role,
                                       garments[ev.tag_id].garment_state)
                          /\ garments'[ev.tag_id].last_scanned_at =
                                Some(ev.scanner_id)
                          /\ last'.saves = 1
                     ELSE Silent]_vars

\* the reader in the hall counted a wear as the closet's reader, was
\* registered again as the washer's, and its scan has started a wash
C30_Witness ==
    /\ last = Call("scan", "t1", "None", 1, 1, None)
    /\ "nfc_hall" \in DOMAIN scanners
    /\ scanners["nfc_hall"].role = "washer"
    /\ "t1" \in DOMAIN garments
    /\ garments["t1"].garment_state = "washing"
    /\ garments["t1"].total_wear_count = 1
    /\ garments["t1"].last_scanned_at = Some("nfc_hall")
    /\ garments["t1"].wash_cycles = <<WashCycle(Time1, "machine")>>

---------------------------------------------------------------------------
(* Properties of removal, under SpecDirectory.                             *)

\* C31: removing a registered tag deletes its record and no other,
\* persists the directories as they then are, notifies and returns True;
\* removing an unregistered tag returns False and changes, persists and
\* announces nothing; and a scan of a tag that is not (or no longer) in the
\* directory by a reader with a role fires the unknown-tag signal and does
\* not bring the record back.
C31_RemovalDeletesForGood ==
    [][/\ \A t \in TagIds :
             (/\ last'.op = "remove_garment"
              /\ async_remove_garment(t, TRUE))
             => IF t \in DOMAIN garments
                THEN /\ DOMAIN garments' = DOMAIN garments \ {t}
                     /\ \A u \in DOMAIN garments' : garments'[u] = garments[u]
                     /\ scanners' = scanners
                     /\ store' = Some([scanners |-> scanners,
                                       garments |->
                                          [u \in DOMAIN garments' |->
                                              to_dict(garments'[u])]])
                     /\ last'.result = "True"
                     /\ last'.saves = 1
                     /\ last'.notified = 1
                ELSE /\ Silent
                     /\ last'.result = "False"
       /\ \A ev \in DirectoryScanEvents :
             (/\ ev.tag_id \notin DOMAIN garments
              /\ Resolves(ev.scanner_id)
              /\ DirectoryScanStep(ev))
             => /\ last'.signal # None
                /\ last'.signal[1].tag_id = ev.tag_id
                /\ ev.tag_id \notin DOMAIN garments']_vars

\* the garment has just been removed: memory and the stored document hold
\* no garment, and the reader in the hall is registered to scan it again
C31_Witness ==
    /\ last = Call("remove_garment", "t1", "True", 1, 1, None)
    /\ DOMAIN garments = {}
    /\ store # None
    /\ DOMAIN store[1].garments = {}
    /\ "nfc_hall" \in DOMAIN scanners

---------------------------------------------------------------------------
(* Properties of the options flow's add-garment step, under SpecSetup.     *)

\* C32: the add-garment step submitted with a tag_id that is already in the
\* garment directory shows the form again with the error
\* tag_already_registered; the existing record and everything else in
\* memory and in the Store stay as they were, nothing is persisted and no
\* change notification is sent.
C32_AddGarmentRefusesRegisteredTag ==
    [][\A t \in TagIds, in \in AddGarmentInputs :
          (/\ t \in DOMAIN garments
           /\ last'.op \in {"add_garment", "register_garment"}
           /\ async_step_add_garment(t, in.name, in.category, in.color,
                                     in.needs_washing_threshold, TRUE))
          => /\ last'.result = "tag_already_registered"
             /\ Silent
             /\ garments'[t] = garments[t]]_vars

\* the form was submitted for a garment that has been worn, and was refused
C32_Witness ==
    /\ last = Call("add_garment", "t1", "tag_already_registered", 0, 0, None)
    /\ "t1" \in DOMAIN garments
    /\ garments["t1"].name = "Shirt"
    /\ garments["t1"].garment_state = "worn"
    /\ garments["t1"].total_wear_count = 1
    /\ garments["t1"].last_worn # None

---------------------------------------------------------------------------
(* SpecEntities: the coordinator with the event platform set up. Every     *)
(* change notification (async_set_updated_data) runs the listeners: the    *)
(* platform's _async_on_data_updated and each entity's                     *)
(* _handle_coordinator_update.                                             *)

\* GarmentStateChangeEvent.__init__: _last_state is None. The field event is
\* what the entity gave _trigger_event in the latest update it handled
\* (None when it triggered nothing).
GarmentStateChangeEvent == [last_state |-> None, event |-> None]

\* GarmentStateChangeEvent._handle_coordinator_update of the entity of
\* tag_id, the directory being gs.
handle_coordinator_update(entity, tag_id, gs) ==
    IF tag_id \notin DOMAIN gs
    THEN [entity EXCEPT !.event = None]
    ELSE LET current == gs[tag_id].garment_state
         IN  [last_state |-> Some(current),
              event |->
                  IF entity.last_state # None /\ current # entity.last_state[1]
                  THEN Some([event_type |-> current,
                             previous_state |-> entity.last_state[1],
                             new_state |-> current])
                  ELSE None]

\* event.async_setup_entry: one entity per garment of the directory.
event_async_setup_entry(gs) == [t \in DOMAIN gs |-> GarmentStateChangeEvent]

\* The listeners run by one change notification: the entities that are
\* listening handle the update, and _async_on_data_updated creates the
\* entity of every tag it does not know (added to hass after this update).
async_update_listeners(es, gs) ==
    [t \in DOMAIN es \cup DOMAIN gs |->
        IF t \in DOMAIN es
        THEN handle_coordinator_update(es[t], t, gs)
        ELSE GarmentStateChangeEvent]

\* async_set_updated_data, when the call of the step has sent it
Notified ==
    event_entities' = IF last'.notified > 0
                      THEN async_update_listeners(event_entities, garments')
                      ELSE event_entities

\* The documents found in storage at setup: no garment, or a clean shirt.
EntityDocuments ==
    { StoredDocument,
      Some([scanners |-> LoadedScanners,
            garments |->
                [t \in {"t1"} |->
                    to_dict(GarmentData(t, "Shirt", "shirt", "white",
                                        DEFAULT_NEEDS_WASHING_THRESHOLD))]]) }

\* async_setup_entry, then the event platform's async_setup_entry.
InitEntities ==
    /\ store \in EntityDocuments
    /\ scanners = async_load_scanners(store)
    /\ garments = async_load_garments(store)
    /\ last = Call("async_load", Missing, "None", 0, 1, None)
    /\ scans = <<>>
    /\ failed = 0
    /\ tasks = <<>>
    /\ entries = <<"Wardrobe Manager">>
    /\ flows = 0
    /\ event_entities = event_async_setup_entry(garments)

EntityScan ==
    \E ev \in ScanEvents, now \in {Time1}, save_ok \in SaveOutcomes :
        /\ handle_tag_scanned(ev.tag_id, ev.scanner_id, now, save_ok)
        /\ Bounded(garments')
        /\ Notified
        /\ UNCHANGED <<scans, failed, tasks, entries, flows>>

EntityRegisterGarment ==
    \E tag_id \in TagIds, in \in GarmentInputs, save_ok \in SaveOutcomes :
        /\ async_register_garment(tag_id, in.name, in.category, in.color,
                                  in.needs_washing_threshold, save_ok)
        /\ Notified
        /\ UNCHANGED <<scans, failed, tasks, entries, flows>>

EntityForceState ==
    \E tag_id \in TagIds, state \in GarmentState, save_ok \in SaveOutcomes :
        /\ async_force_state(tag_id, state, save_ok)
        /\ Notified
        /\ UNCHANGED <<scans, failed, tasks, entries, flows>>

EntityLogWashCycle ==
    \E tag_id \in TagIds, method \in Methods, now \in {Time1},
       save_ok \in SaveOutcomes :
        /\ async_log_wash_cycle(tag_id, method, now, save_ok)
        /\ Bounded(garments')
        /\ Notified
        /\ UNCHANGED <<scans, failed, tasks, entries, flows>>

NextEntities ==
    \/ EntityScan
    \/ EntityRegisterGarment
    \/ EntityForceState
    \/ EntityLogWashCycle

SpecEntities == InitEntities /\ [][NextEntities]_vars

\* A step changed the state of the garment t by a scan, a force-state or a
\* log-wash, and the call sent its change notification.
StateChanged(t) ==
    /\ last'.op \in {"scan", "force_state", "log_wash_cycle"}
    /\ last'.notified > 0
    /\ t \in DOMAIN garments
    /\ t \in DOMAIN garments'
    /\ garments'[t].garment_state # garments[t].garment_state

\* C33: every time the state of a garment changes through an accepted scan,
\* a force-state or a log-wash followed by its change notification, the
\* garment's state-change event entity fires an event whose type is the new
\* state and whose data carry the previous state and the new state.
C33_EventOnEveryStateChange ==
    [][\A t \in TagIds :
          StateChanged(t)
          => /\ t \in DOMAIN event_entities'
             /\ event_entities'[t].event =
                    Some([event_type |-> garments'[t].garment_state,
                          previous_state |-> garments[t].garment_state,
                          new_state |-> garments'[t].garment_state])]_vars

---------------------------------------------------------------------------
(* binary_sensor.py, and its properties under Spec.                        *)

\* Faulty variant: the sensor turns on only above the threshold.
is_on_above_threshold(tag_id) ==
    IF tag_id \notin DOMAIN garments
    THEN None
    ELSE Some(garments[tag_id].wear_count_since_wash
                  > garments[tag_id].needs_washing_threshold)

\* NeedsWashingBinarySensor.is_on of the sensor of tag_id: None is unknown.
is_on(tag_id) ==
    IF tag_id \notin DOMAIN garments
    THEN None
    ELSE Some(garments[tag_id].wear_count_since_wash
                  >= garments[tag_id].needs_washing_threshold)

\* C34: the needs-washing sensor of a garment is unknown while the garment is
\* not in the directory and otherwise on exactly when wear_count_since_wash
\* has reached needs_washing_threshold; a closet scan that returns a worn
\* garment as clean leaves a sensor that was on on; right after a scan into
\* washing or a log-wash of a garment with a positive threshold it is off.
C34_NeedsWashingSensor ==
    /\ [](\A t \in TagIds :
            IF t \in DOMAIN garments
            THEN /\ is_on(t) \in {Some(TRUE), Some(FALSE)}
                 /\ is_on(t) = Some(TRUE)
                        <=> ~(garments[t].wear_count_since_wash
                                  < garments[t].needs_washing_threshold)
            ELSE is_on(t) = None)
    /\ [][\A t \in TagIds :
            (t \in DOMAIN garments /\ t \in DOMAIN garments')
            => /\ (/\ last'.op = "scan"
                   /\ garments[t].garment_state = "worn"
                   /\ garments'[t].garment_state = "clean"
                   /\ is_on(t) = Some(TRUE))
                  => is_on(t)' = Some(TRUE)
               /\ (/\ garments'[t].needs_washing_threshold > 0
                   /\ \/ /\ last'.op = "scan"
                         /\ last'.tag = t
                         /\ garments'[t].garment_state = "washing"
                      \/ /\ last'.op = "log_wash_cycle"
                         /\ last'.tag = t)
                  => is_on(t)' = Some(FALSE)]_vars

\* jeans with threshold 1 were worn once and have just been scanned back
\* into the closet: clean, and the sensor is on
C34_Witness ==
    /\ last = Call("scan", "t1", "None", 1, 1, None)
    /\ "t1" \in DOMAIN garments
    /\ garments["t1"].garment_state = "clean"
    /\ garments["t1"].needs_washing_threshold = 1
    /\ garments["t1"].wear_count_since_wash = 1
    /\ garments["t1"].last_scanned_at = Some("nfc_closet")
    /\ is_on("t1") = Some(TRUE)

---------------------------------------------------------------------------
(* Properties of the counters and the wash history of a registered garment. *)

\* C35: for every garment created by a registration and then taken through
\* any scans, force-states, log-washes and re-registrations, both wear
\* counters are non-negative and wear_count_since_wash is at most
\* total_wear_count. Checked under Spec.
C35_CountersOrdered ==
    \A t \in DOMAIN garments :
        /\ garments[t].wear_count_since_wash >= 0
        /\ garments[t].total_wear_count >= 0
        /\ garments[t].wear_count_since_wash <= garments[t].total_wear_count

\* worn twice, washed by hand in between and forced back to clean: one wear
\* since the wash, two in total
C35_Witness ==
    /\ "t1" \in DOMAIN garments
    /\ garments["t1"].wear_count_since_wash = 1
    /\ garments["t1"].total_wear_count = 2
    /\ garments["t1"].wash_cycles # <<>>
    /\ garments["t1"].wash_cycles[1].method = "hand"
    /\ garments["t1"].garment_state = "worn"
    /\ last.op = "scan"

\* C36: for a garment that after its registration is changed by scans only,
\* the number of logged wash cycles is at most total_wear_count. Checked
\* under SpecPair.
C36_WashesAtMostWears ==
    \A t \in DOMAIN garments :
        Len(garments[t].wash_cycles) <= garments[t].total_wear_count

\* the shirt has been worn twice and machine-washed after each wear
C36_Witness ==
    /\ Len(garments["t1"].wash_cycles) = 2
    /\ garments["t1"].total_wear_count = 2
    /\ garments["t1"].garment_state = "washing"
    /\ last = Call("scan", "t1", "None", 1, 1, None)

\* C37: for every garment reached from a registration by scans, force-states
\* and log-washes, last_washed is unset exactly when wash_cycles is empty,
\* and otherwise it is the timestamp of the last entry of wash_cycles.
\* Checked under Spec.
C37_LastWashedIsLastCycle ==
    \A t \in DOMAIN garments :
        LET g == garments[t] IN
        IF g.wash_cycles = <<>>
        THEN g.last_washed = None
        ELSE g.last_washed = Some(g.wash_cycles[Len(g.wash_cycles)].timestamp)

\* two washes at different times, the later one by hand: last_washed is the
\* later time
C37_Witness ==
    /\ "t1" \in DOMAIN garments
    /\ Len(garments["t1"].wash_cycles) = 2
    /\ garments["t1"].wash_cycles[1] = WashCycle(Time1, "machine")
    /\ garments["t1"].wash_cycles[2] = WashCycle(Time2, "hand")
    /\ garments["t1"].last_washed = Some(Time2)
    /\ last.op = "log_wash_cycle"

\* C38: by scans alone no state is a dead end. From worn, in_laundry_bin,
\* drying and needs_ironing one scan at the closet is accepted and gives
\* clean; from washing a scan at the dryer or at the ironing reader is
\* accepted and a closet scan after it gives clean; so clean is at most two
\* accepted scans away from each of the six states. Checked under
\* SpecLifecycle.
C38_CleanWithinTwoScans ==
    LET g == garments["t1"]
        scan(gx, role) == transition(gx, role, "s", Time1)
        gives_clean(gx, role) ==
            /\ scan(gx, role).returned # None
            /\ scan(gx, role).garment.garment_state = "clean"
    IN  /\ g.garment_state \in GarmentState
        /\ g.garment_state \in {"worn", "in_laundry_bin", "drying",
                                "needs_ironing"}
              => gives_clean(g, "closet")
        /\ g.garment_state = "washing"
              => \A role \in {"dryer", "ironing"} :
                    /\ scan(g, role).returned # None
                    /\ gives_clean(scan(g, role).garment, "closet")

\* the garment was worn, binned and washed, and from washing the ironing
\* reader and then the closet brought it back to clean
C38_Witness ==
    /\ Len(scans) = 5
    /\ \A i \in 1..5 : scans[i].accepted
    /\ scans[3].role = "washer"
    /\ scans[4].role = "ironing"
    /\ scans[5].role = "closet"
    /\ garments["t1"].garment_state = "clean"

===========================================================================
